---------------------------- MODULE Spec2Model ----------------------------
(***************************************************************************)
(* A model of the S-box circuit synthesiser: the depth-structure           *)
(* enumerators, the GEC and BGC constraint encoders, the search loops of   *)
(* GECOptimizer and BGCOptimizer, the threaded solver call of BGCOptimizer *)
(* and the 8-bit cost arithmetic of the GEC problem.                       *)
(***************************************************************************)
EXTENDS Integers, Sequences, FiniteSets, TLC

VARIABLES
    pc,               \* position of the modelled call
    bit_num,          \* self.bit_num of the optimizer / generator
    gate_num,         \* gate_num / gate_count argument or loop variable
    max_depth,        \* max_depth argument
    valid_structures, \* list returned by generate_depth_combinations
    parallel,         \* parallel argument of the BGC encoder
    depth_structure,  \* depth_structure / structure argument of the encoder
    d,                \* loop variable d of generate_*_constraints
    count_q,          \* count_q of generate_*_constraints
    count_t,          \* count_t of generate_*_constraints
    count_b,          \* count_b of generate_logic_constraints (GEC)
    fout,             \* what the encoder has written, as a token list
    entry,            \* the search method that was called
    max_gates,        \* max_gates argument
    max_gec,          \* max_gec argument of the GEC searches
    stop_on_first,    \* stop_on_first argument
    explore_all_structures, \* explore_all_structures argument
    depth_structures, \* depth_structures / structures of the current gate count
    idx,              \* position of "for structure in depth_structures"
    gate_solutions,   \* gate_solutions of optimize_sbox_exhaustive
    all_solutions,    \* all_solutions of optimize_sbox_exhaustive
    solutions,        \* solutions of find_all_solutions_for_gates
    best_result,      \* best_result
    results,          \* optimization_results["results"] / all_results
    attempts,         \* history: every _solve_structure call, in order
    returned,         \* the dictionary the search returned, once it has
    thread_result,    \* self._thread_result of BGCOptimizer
    threads,          \* the solver threads started so far: running or dead
    solver_results,   \* history: what _execute_solver_threaded returned
    technology,       \* technology argument of the GEC encoder
    min_gec,          \* min_gec argument of generate_logic_constraints
    assigned,         \* number of gates whose B_i and C_i are assigned
    GEC,              \* the 8-bit sum BVPLUS(8, C_0, ...) of the assigned C_i
    total,            \* history: the sum of the assigned C_i as an integer
    satisfied,        \* whether the assignment satisfies BVLT(GEC, ceiling)
    gate_list,        \* gate_list argument of generate_trivial_constraints
    written,          \* which gate-type constraint the encoder wrote
    B,                \* the type selector of one gate, as a number
    Q,                \* the gate's input slots at one bit position
    T,                \* the gate's output at that bit position
    sbox,             \* sbox argument of the decomposition
    A,                \* the matrix returned by the decomposition
    is_valid,         \* what validate_sbox returned, once it has
    result_dict,      \* the assignment parse_stp_output read: name -> value
    arrays,           \* organize_variables' lists, one per variable family
    formulas,         \* the formulas generate_formulas returned
    lookup,           \* one call of _find_variable_name: arguments, result
    xs,               \* the input constants of generate_smt2_from_sbox
    ys                \* the output constants of generate_smt2_from_sbox

callVars == <<pc, bit_num, gate_num, max_depth>>

enumVars == <<valid_structures>>

encVars == <<parallel, depth_structure, d, count_q, count_t, count_b, fout>>

argVars == <<entry, max_gates, max_gec, stop_on_first, explore_all_structures>>

searchVars == <<argVars, depth_structures, idx, gate_solutions, all_solutions,
                solutions, best_result, results, attempts, returned>>

threadVars == <<thread_result, threads, solver_results>>

costVars == <<technology, min_gec, assigned, GEC, total, satisfied>>

gateVars == <<gate_list, written, B, Q, T>>

codecVars == <<sbox, A, is_valid>>

formulaVars == <<result_dict, arrays, formulas, lookup>>

smt2Vars == <<xs, ys>>

vars == <<callVars, enumVars, encVars, searchVars, threadVars, costVars,
          gateVars, codecVars, formulaVars, smt2Vars>>

(***************************************************************************)
(* Bounds of the model.                                                    *)
(***************************************************************************)
MaxBitNum == 3
MaxGateNum == 4
MaxDepth == 4
MaxGates == 2
MaxCandidates == 3
MaxCostGates == 14
MaxListLen == 2

(***************************************************************************)
(* Small helpers on sequences.                                             *)
(***************************************************************************)
Range(s) == {s[j] : j \in 1..Len(s)}

\* an optional value (None or a value) is a sequence of length 0 or 1
None == <<>>

Some(x) == <<x>>

RECURSIVE SumSeq(_)
SumSeq(s) == IF s = <<>> THEN 0 ELSE s[1] + SumSeq(Tail(s))

RECURSIVE SelectStructures(_, _, _)
\* the sub-list of structures (order kept) for which keep[j] is TRUE
SelectStructures(structures, keep, j) ==
    IF j > Len(structures) THEN <<>>
    ELSE (IF keep[j] THEN <<structures[j]>> ELSE <<>>)
         \o SelectStructures(structures, keep, j + 1)

\* every sequence of k parts drawn from 1..g whose parts sum to g
Compositions(g, k) == {s \in [1..k -> 1..g] : SumSeq(s) = g}

Min(a, b) == IF a <= b THEN a ELSE b

(***************************************************************************)
(* GECOptimizer: feasibility check and enumerator.                         *)
(***************************************************************************)
RECURSIVE GEC_valid_from(_, _, _, _)
\* the loop "for level_gates in reversed(structure)", at index j
GEC_valid_from(structure, j, gates_so_far, gates_used) ==
    IF j = 0 THEN TRUE
    ELSE IF structure[j] > gates_so_far + gates_used THEN FALSE
    ELSE GEC_valid_from(structure, j - 1, 2 * structure[j],
                        gates_so_far + gates_used - structure[j])

GEC_is_valid_structure(n, structure) ==
    GEC_valid_from(structure, Len(structure), n, 0)

GEC_option_fits_strict(option, target) == option < target

GEC_option_fits(option, target) == option <= target

RECURSIVE GEC_combination_impl(_, _, _, _)
RECURSIVE GEC_combination_loop(_, _, _, _, _)
\* the list of results appended by one call, in order of appending
GEC_combination_impl(options, target, current, max_length) ==
    IF target = 0
    THEN (IF Len(current) = max_length THEN <<current>> ELSE <<>>)
    ELSE IF Len(current) >= max_length THEN <<>>
    ELSE GEC_combination_loop(options, 1, target, current, max_length)

\* the loop "for option in options", from position j on
GEC_combination_loop(options, j, target, current, max_length) ==
    IF j > Len(options) THEN <<>>
    ELSE (IF GEC_option_fits(options[j], target)
          THEN GEC_combination_impl(options, target - options[j],
                                    Append(current, options[j]), max_length)
          ELSE <<>>)
         \o GEC_combination_loop(options, j + 1, target, current, max_length)

GEC_filter_valid_none(n, structures) == structures

\* the loop "for structure in structures: if valid: append"
GEC_filter_valid(n, structures) ==
    SelectStructures(structures,
                     [j \in 1..Len(structures) |->
                         GEC_is_valid_structure(n, structures[j])], 1)

RECURSIVE GEC_depth_loop(_, _, _, _)
\* the loop "for depth in range(1, min(max_depth + 1, gate_num + 1))"
GEC_depth_loop(n, g, depth, stop) ==
    IF depth >= stop THEN <<>>
    ELSE GEC_filter_valid(n, GEC_combination_impl([j \in 1..g |-> j], g, <<>>, depth))
         \o GEC_depth_loop(n, g, depth + 1, stop)

GEC_generate_depth_combinations(n, g, md) ==
    GEC_depth_loop(n, g, 1, Min(md + 1, g + 1))

(***************************************************************************)
(* BGCCircuitStructure: feasibility check and enumerators.                 *)
(***************************************************************************)
RECURSIVE BGC_valid_from(_, _, _, _)
\* the loop "for gates_at_depth in reversed(structure)", at index j
BGC_valid_from(structure, j, available_inputs, used_outputs) ==
    IF j = 0 THEN TRUE
    ELSE IF structure[j] > available_inputs + used_outputs THEN FALSE
    ELSE BGC_valid_from(structure, j - 1, 2 * structure[j],
                        used_outputs + (available_inputs - structure[j]))

BGC_validate_structure(n, structure) ==
    BGC_valid_from(structure, Len(structure), n, 0)

RECURSIVE BGC_combination_impl(_, _, _, _)
RECURSIVE BGC_combination_loop(_, _, _, _, _)
BGC_combination_impl(available, remaining, current, target_depth) ==
    IF remaining = 0
    THEN (IF Len(current) = target_depth THEN <<current>> ELSE <<>>)
    ELSE BGC_combination_loop(available, 1, remaining, current, target_depth)

\* the loop "for i, val in enumerate(available)" with its break
BGC_combination_loop(available, j, remaining, current, target_depth) ==
    IF j > Len(available) THEN <<>>
    ELSE IF available[j] <= remaining
    THEN BGC_combination_impl(available, remaining - available[j],
                              Append(current, available[j]), target_depth)
         \o BGC_combination_loop(available, j + 1, remaining, current, target_depth)
    ELSE <<>>

\* the loop "for structure in structures: if valid: append"
BGC_filter_valid(n, structures) ==
    SelectStructures(structures,
                     [j \in 1..Len(structures) |->
                         BGC_validate_structure(n, structures[j])], 1)

RECURSIVE BGC_depth_loop(_, _, _)
\* the loop "for depth in range(max_depth, 0, -1)"
BGC_depth_loop(n, g, depth) ==
    IF depth <= 0 THEN <<>>
    ELSE BGC_filter_valid(n, BGC_combination_impl([j \in 1..g |-> j], g, <<>>, depth))
         \o BGC_depth_loop(n, g, depth - 1)

BGC_generate_depth_combinations(n, g, md) == BGC_depth_loop(n, g, md)

\* a faulty variant: it puts all gates on one level
BGC_generate_serial_structure_flat(g) == [j \in 1..Min(g, 1) |-> g]

BGC_generate_serial_structure(g) == [j \in 1..g |-> 1]

(***************************************************************************)
(* Specification of the enumerators: one call on bounded arguments.        *)
(***************************************************************************)
\* the encoder is not running
EncIdle ==
    /\ parallel = FALSE
    /\ depth_structure = <<>>
    /\ d = 0
    /\ count_q = 0
    /\ count_t = 0
    /\ count_b = 0
    /\ fout = <<>>

\* no search is running
SearchIdle ==
    /\ entry = "none"
    /\ max_gates = 0
    /\ max_gec = 0
    /\ stop_on_first = FALSE
    /\ explore_all_structures = FALSE
    /\ depth_structures = <<>>
    /\ idx = 0
    /\ gate_solutions = <<>>
    /\ all_solutions = <<>>
    /\ solutions = <<>>
    /\ best_result = <<>>
    /\ results = <<>>
    /\ attempts = <<>>
    /\ returned = <<>>

\* no solver thread has been started
ThreadIdle ==
    /\ thread_result = <<>>
    /\ threads = <<>>
    /\ solver_results = <<>>

\* no cost problem is being assigned
CostIdle ==
    /\ technology = 0
    /\ min_gec = 0
    /\ assigned = 0
    /\ GEC = 0
    /\ total = 0
    /\ satisfied = FALSE

\* no gate is being typed or evaluated
GateIdle ==
    /\ gate_list = <<>>
    /\ written = "nothing"
    /\ B = 0
    /\ Q = <<>>
    /\ T = 0

\* no S-box is being decomposed
CodecIdle ==
    /\ sbox = <<>>
    /\ A = <<>>
    /\ is_valid = None

\* no solver output is being interpreted
FormulaIdle ==
    /\ result_dict = <<>>
    /\ arrays = <<>>
    /\ formulas = <<>>
    /\ lookup = None

\* no SMT2 problem is being generated
Smt2Idle ==
    /\ xs = <<>>
    /\ ys = <<>>

EnumInit ==
    /\ EncIdle
    /\ SearchIdle
    /\ ThreadIdle
    /\ CostIdle
    /\ GateIdle
    /\ CodecIdle
    /\ FormulaIdle
    /\ Smt2Idle
    /\ pc = "call"
    /\ bit_num \in 1..MaxBitNum
    /\ gate_num \in 0..MaxGateNum
    /\ max_depth \in 0..MaxDepth
    /\ valid_structures = <<>>

GEC_Generate ==
    /\ pc = "call"
    /\ valid_structures' = GEC_generate_depth_combinations(bit_num, gate_num, max_depth)
    /\ pc' = "GEC"
    /\ UNCHANGED <<threadVars, costVars, gateVars, codecVars, formulaVars, smt2Vars>>
    /\ UNCHANGED <<bit_num, gate_num, max_depth, encVars, searchVars>>

BGC_Generate ==
    /\ pc = "call"
    /\ valid_structures' = BGC_generate_depth_combinations(bit_num, gate_num, max_depth)
    /\ pc' = "BGC"
    /\ UNCHANGED <<threadVars, costVars, gateVars, codecVars, formulaVars, smt2Vars>>
    /\ UNCHANGED <<bit_num, gate_num, max_depth, encVars, searchVars>>

EnumNext == GEC_Generate \/ BGC_Generate

SpecEnum == EnumInit /\ [][EnumNext]_vars

(***************************************************************************)
(* Claims about the enumerators, checked under SpecEnum.                   *)
(***************************************************************************)
EnumReturned == pc \in {"GEC", "BGC"}

\* the feasibility check of the class whose enumerator returned
FeasibleHere(structure) ==
    IF pc = "GEC" THEN GEC_is_valid_structure(bit_num, structure)
    ELSE BGC_validate_structure(bit_num, structure)

\* C3: generate_depth_combinations(g, d) of both classes returns only
\* sequences of positive integers that sum to g, of a length between 1 and
\* min(d, g), that pass the feasibility check for the bit width.
C3_OnlyAdmissible ==
    EnumReturned =>
        \A j \in 1..Len(valid_structures) :
            LET s == valid_structures[j] IN
            /\ \A k \in 1..Len(s) : s[k] \in Nat /\ s[k] >= 1
            /\ SumSeq(s) = gate_num
            /\ Len(s) >= 1
            /\ Len(s) <= Min(max_depth, gate_num)
            /\ FeasibleHere(s)

\* a call that returned structures while the filter had something to discard
C3_Witness ==
    /\ EnumReturned
    /\ Len(valid_structures) >= 2
    /\ \E k \in 1..Min(max_depth, gate_num) :
           \E s \in Compositions(gate_num, k) : ~FeasibleHere(s)

\* every feasible composition of g into 1..min(d, g) positive parts
FeasibleCompositions(n, g, md) ==
    UNION {{s \in Compositions(g, k) : GEC_is_valid_structure(n, s)
                                        /\ BGC_validate_structure(n, s)}
           : k \in 1..Min(md, g)}

\* C4: generate_depth_combinations(g, d) omits no feasible composition of g
\* into 1..min(d, g) positive parts, and the GEC and the BGC enumerator
\* return the same set of structures.
C4_Exhaustive ==
    EnumReturned =>
        /\ FeasibleCompositions(bit_num, gate_num, max_depth)
               \subseteq Range(valid_structures)
        /\ Range(valid_structures) =
               Range(IF pc = "GEC"
                     THEN BGC_generate_depth_combinations(bit_num, gate_num, max_depth)
                     ELSE GEC_generate_depth_combinations(bit_num, gate_num, max_depth))

\* a call whose answer holds several structures of several depths
C4_Witness ==
    /\ EnumReturned
    /\ Cardinality(FeasibleCompositions(bit_num, gate_num, max_depth)) >= 4
    /\ \E i, j \in 1..Len(valid_structures) :
           Len(valid_structures[i]) # Len(valid_structures[j])

(***************************************************************************)
(* The connectivity part of the two encoders.  What is written to the CVC  *)
(* file is kept as a list of tokens: ASSERT opens an assertion, EQ is one  *)
(* disjunct "( Q_q = X_i )" or "( Q_q = T_i )", EQY is one disjunct        *)
(* "( Y_q = T_i )", OR separates, END is the terminator ");" and GATE is   *)
(* the gate operation that defines T_i from the slots Q_q, Q_q+1, ...      *)
(***************************************************************************)
Tok(tok, q, src, i) == [tok |-> tok, q |-> q, src |-> src, i |-> i]

\* the loop "for i in range(count): write disjunct; write END or OR"
DisjunctLoop(tok, q, src, count, end_at_last) ==
    [p \in 1..(2 * count) |->
        IF p % 2 = 1 THEN Tok(tok, q, src, (p - 1) \div 2)
        ELSE IF end_at_last /\ p = 2 * count THEN Tok("END", q, "", 0)
        ELSE Tok("OR", q, "", 0)]

RECURSIVE Flatten(_)
Flatten(ss) == IF ss = <<>> THEN <<>> ELSE ss[1] \o Flatten(Tail(ss))

\* a faulty variant: it offers the primary inputs to every slot
GEC_slot_constraint_all_inputs(n, depth_level, cnt_t, current_q, q) ==
    <<Tok("ASSERT", current_q, "", 0)>> \o
    DisjunctLoop("EQ", current_q, "X", n, depth_level = 0 /\ cnt_t = 0)
    \o (IF ~(depth_level = 0 /\ cnt_t = 0)
        THEN DisjunctLoop("EQ", current_q, "T", cnt_t, TRUE)
        ELSE <<>>)

\* CVCGenerator: the constraint of slot q (0..3) of one gate
GEC_slot_constraint(n, depth_level, cnt_t, current_q, q) ==
    <<Tok("ASSERT", current_q, "", 0)>> \o
    (IF depth_level = 0 \/ q = 0 \/ q = 2
     THEN DisjunctLoop("EQ", current_q, "X", n, depth_level = 0 /\ cnt_t = 0)
          \o (IF ~(depth_level = 0 /\ cnt_t = 0)
              THEN DisjunctLoop("EQ", current_q, "T", cnt_t, TRUE)
              ELSE <<>>)
     ELSE DisjunctLoop("EQ", current_q, "T", cnt_t, TRUE))

\* CVCGenerator: the body of "for k in range(gates_in_level)" for gate k
GEC_gate_constraints(n, depth_level, cnt_q, cnt_t, k) ==
    Flatten([q \in 1..4 |->
                GEC_slot_constraint(n, depth_level, cnt_t,
                                    cnt_q + 4 * k + (q - 1), q - 1)])
    \o <<Tok("GATE", cnt_q + 4 * k, "T", cnt_t + k)>>

\* CVCGenerator._generate_logic_sub_constraints
GEC_generate_logic_sub_constraints(n, gates_in_level, cnt_q, cnt_t, depth_level) ==
    Flatten([k \in 1..gates_in_level |->
                GEC_gate_constraints(n, depth_level, cnt_q, cnt_t, k - 1)])

\* BGCConstraintGenerator: the constraint of slot q (0..1) of one gate
BGC_slot_constraint(n, depth, current_t, current_q, q, par) ==
    <<Tok("ASSERT", current_q, "", 0)>> \o
    (IF depth = 0 \/ q = 0 \/ ~par
     THEN DisjunctLoop("EQ", current_q, "X", n, depth = 0)
          \o DisjunctLoop("EQ", current_q, "T", current_t, TRUE)
     ELSE DisjunctLoop("EQ", current_q, "T", current_t, TRUE))

\* a faulty variant: it offers the current gate's own output too
BGC_gate_constraints_self(n, depth, cnt_q, cnt_t, k, par) ==
    Flatten([q \in 1..2 |->
                BGC_slot_constraint(n, depth, cnt_t + k + 1,
                                    cnt_q + 2 * k + (q - 1), q - 1, par)])
    \o <<Tok("GATE", cnt_q + 2 * k, "T", cnt_t + k)>>

\* BGCConstraintGenerator: the body of "for k in range(gates_at_depth)"
BGC_gate_constraints(n, depth, cnt_q, cnt_t, k, par) ==
    Flatten([q \in 1..2 |->
                BGC_slot_constraint(n, depth, cnt_t + k,
                                    cnt_q + 2 * k + (q - 1), q - 1, par)])
    \o <<Tok("GATE", cnt_q + 2 * k, "T", cnt_t + k)>>

\* BGCConstraintGenerator._generate_depth_constraints
BGC_generate_depth_constraints(n, gates_at_depth, cnt_q, cnt_t, depth, par) ==
    Flatten([k \in 1..gates_at_depth |->
                BGC_gate_constraints(n, depth, cnt_q, cnt_t, k - 1, par)])

\* a faulty variant: it offers the primary inputs too
OutputSelection_with_inputs(n, g) ==
    Flatten([y \in 1..n |->
                <<Tok("ASSERT", y - 1, "Y", 0)>>
                \o DisjunctLoop("EQY", y - 1, "X", n, FALSE)
                \o DisjunctLoop("EQY", y - 1, "T", g, TRUE)])

\* the output selection loop "for y in range(bit_num)" of both encoders
OutputSelection(n, g) ==
    Flatten([y \in 1..n |->
                <<Tok("ASSERT", y - 1, "Y", 0)>>
                \o DisjunctLoop("EQY", y - 1, "T", g, TRUE)])

(***************************************************************************)
(* Specification of the encoders: one problem is written level by level.   *)
(***************************************************************************)
EncInit ==
    /\ SearchIdle
    /\ ThreadIdle
    /\ CostIdle
    /\ GateIdle
    /\ CodecIdle
    /\ FormulaIdle
    /\ Smt2Idle
    /\ bit_num \in 1..MaxBitNum
    /\ gate_num \in 1..MaxGateNum
    /\ max_depth = gate_num
    /\ valid_structures = <<>>
    /\ \/ /\ pc = "GEC_levels"
          /\ parallel = FALSE
          /\ depth_structure \in
                Range(GEC_generate_depth_combinations(bit_num, gate_num, gate_num))
       \/ /\ pc = "BGC_levels"
          /\ parallel \in BOOLEAN
          /\ depth_structure \in
                Range(BGC_generate_depth_combinations(bit_num, gate_num, gate_num))
                \cup {BGC_generate_serial_structure(gate_num)}
    /\ d = 0
    /\ count_q = 0
    /\ count_t = 0
    /\ count_b = 0
    /\ fout = <<>>

\* one turn of "for d in range(depth)" of generate_logic_constraints
GEC_Level ==
    /\ pc = "GEC_levels"
    /\ d < Len(depth_structure)
    /\ fout' = fout \o GEC_generate_logic_sub_constraints(
                           bit_num, depth_structure[d + 1], count_q, count_t, d)
    /\ count_q' = count_q + 4 * depth_structure[d + 1]
    /\ count_t' = count_t + depth_structure[d + 1]
    /\ count_b' = count_b + depth_structure[d + 1]
    /\ d' = d + 1
    /\ UNCHANGED <<threadVars, costVars, gateVars, codecVars, formulaVars, smt2Vars>>
    /\ UNCHANGED <<pc, bit_num, gate_num, max_depth, valid_structures,
                   parallel, depth_structure, searchVars>>

\* the output selection constraints that follow the loop
GEC_Outputs ==
    /\ pc = "GEC_levels"
    /\ d = Len(depth_structure)
    /\ fout' = fout \o OutputSelection(bit_num, gate_num)
    /\ pc' = "GEC_written"
    /\ UNCHANGED <<threadVars, costVars, gateVars, codecVars, formulaVars, smt2Vars>>
    /\ UNCHANGED <<bit_num, gate_num, max_depth, valid_structures,
                   parallel, depth_structure, d, count_q, count_t, count_b,
                   searchVars>>

\* one turn of "for d in range(depth)" of generate_gate_constraints
BGC_Level ==
    /\ pc = "BGC_levels"
    /\ d < Len(depth_structure)
    /\ fout' = fout \o BGC_generate_depth_constraints(
                           bit_num, depth_structure[d + 1], count_q, count_t, d, parallel)
    /\ count_q' = count_q + 2 * depth_structure[d + 1]
    /\ count_t' = count_t + depth_structure[d + 1]
    /\ d' = d + 1
    /\ UNCHANGED <<threadVars, costVars, gateVars, codecVars, formulaVars, smt2Vars>>
    /\ UNCHANGED <<pc, bit_num, gate_num, max_depth, valid_structures,
                   parallel, depth_structure, count_b, searchVars>>

BGC_Outputs ==
    /\ pc = "BGC_levels"
    /\ d = Len(depth_structure)
    /\ fout' = fout \o OutputSelection(bit_num, gate_num)
    /\ pc' = "BGC_written"
    /\ UNCHANGED <<threadVars, costVars, gateVars, codecVars, formulaVars, smt2Vars>>
    /\ UNCHANGED <<bit_num, gate_num, max_depth, valid_structures,
                   parallel, depth_structure, d, count_q, count_t, count_b,
                   searchVars>>

EncNext == GEC_Level \/ GEC_Outputs \/ BGC_Level \/ BGC_Outputs

SpecEnc == EncInit /\ [][EncNext]_vars

(***************************************************************************)
(* Claims about the connectivity constraints, checked under SpecEnc.       *)
(***************************************************************************)
IsGEC == pc \in {"GEC_levels", "GEC_written"}

SlotsPerGate == IF IsGEC THEN 4 ELSE 2

\* positions of fout that hold a disjunct of a connectivity assertion, i.e.
\* an EQ token with no terminator between it and the ASSERT that opens it
OfferedAt ==
    {p \in 1..Len(fout) :
        /\ fout[p].tok = "EQ"
        /\ \E a \in 1..p :
              /\ fout[a].tok = "ASSERT"
              /\ \A m \in a..p : fout[m].tok # "END"
              /\ \A m \in (a + 1)..p : fout[m].tok # "ASSERT"}

\* the gate whose operation reads slot q, from the GATE tokens written
GateOfSlot(q) ==
    {fout[p].i : p \in {r \in 1..Len(fout) :
                            /\ fout[r].tok = "GATE"
                            /\ fout[r].q <= q
                            /\ q < fout[r].q + SlotsPerGate}}

\* the depth level (from 0) of gate t in depth_structure
LevelOfGate(t) ==
    CHOOSE l \in 0..(Len(depth_structure) - 1) :
        /\ SumSeq(SubSeq(depth_structure, 1, l)) <= t
        /\ t < SumSeq(SubSeq(depth_structure, 1, l + 1))

\* C1: every disjunct Q = T_i offered to an input slot of gate k has i < k.
C1_Acyclic ==
    \A p \in OfferedAt :
        fout[p].src = "T" =>
            \A k \in GateOfSlot(fout[p].q) : fout[p].i < k

\* a written problem in which some slot is offered a gate output
C1_Witness ==
    /\ pc \in {"GEC_written", "BGC_written"}
    /\ \E p \in OfferedAt :
          /\ fout[p].src = "T"
          /\ GateOfSlot(fout[p].q) # {}
          /\ fout[p].i + 1 \in GateOfSlot(fout[p].q)

\* C2: the gate outputs offered to a slot of a gate at level l are outputs of
\* gates at levels strictly lower than l.
C2_StrictlyLowerLevel ==
    \A p \in OfferedAt :
        fout[p].src = "T" =>
            \A k \in GateOfSlot(fout[p].q) :
                LevelOfGate(fout[p].i) < LevelOfGate(k)

\* C2 for the GEC encoder alone
C2_GEC_StrictlyLowerLevel == IsGEC => C2_StrictlyLowerLevel


(***************************************************************************)
(* The search loops.  The external solver is a nondeterministic outcome    *)
(* of each _solve_structure call: SAT, UNSAT, TIMEOUT (the solver or the   *)
(* script ran out of time) or RAISE (an exception while the candidate is   *)
(* encoded, solved or saved).  An optional value (None or a result) is a   *)
(* sequence of length 0 or 1.                                              *)
(***************************************************************************)
\* SAT and UNSAT are the solver's verdicts; TIMEOUT is a solver that exceeded
\* the timeout (a solver that could not be run is recorded the same way but
\* for the text of the message); RAISE is an exception raised while the
\* candidate is encoded or its result saved
Outcomes == {"SAT", "UNSAT", "TIMEOUT", "RAISE"}

\* the dictionary GECOptimizer._solve_structure returns
GEC_solve_structure(g, structure, outcome) ==
    [gate_num |-> g,
     depth |-> Len(structure),
     structure |-> structure,
     satisfiable |-> (outcome = "SAT"),
     success |-> (outcome \in {"SAT", "UNSAT"}),
     error_message |-> IF outcome = "TIMEOUT" THEN "Solver timeout" ELSE ""]

\* the BGCResult BGCOptimizer._solve_structure returns, None on an exception
BGC_solve_structure(g, structure, outcome) ==
    IF outcome = "RAISE" THEN None
    ELSE Some([gate_count |-> g,
               depth |-> Len(structure),
               structure |-> structure,
               satisfiable |-> (outcome = "SAT")])

\* a faulty variant: it stops the walk one gate count later
GateCountsLeft_through_zero(g) == g >= 0

\* "for gate_num in range(max_gates, 0, -1)" has a value g to run with
GateCountsLeft(g) == g > 0

\* a faulty variant: it compares the wrong way round
GEC_improves_larger(best, g) == best = None \/ g > best[1].gate_num

\* "best_result is None or gate_num < best_result['gate_num']"
GEC_improves(best, g) == best = None \/ g < best[1].gate_num

BGC_improves(best, result) ==
    best = None \/ result.gate_count < best[1].gate_count

\* a faulty variant: it never stops the walk over the gate counts
BGC_stops_walk_never(best, stop) == FALSE

\* "if best_result and stop_on_first: break"
BGC_stops_walk(best, stop) == best # None /\ stop

\* a faulty variant: it takes every solved candidate for a solution
GEC_is_solution_any(result) == result.success

\* "if result['satisfiable']" of find_all_solutions_for_gates
GEC_is_solution(result) == result.satisfiable

RECURSIVE CountSatisfiable(_)
\* len([r for r in all_results if r.satisfiable])
CountSatisfiable(rs) ==
    IF rs = <<>> THEN 0
    ELSE (IF rs[1].satisfiable THEN 1 ELSE 0) + CountSatisfiable(Tail(rs))

\* the ceilings the GEC searches are called with
SearchCeilings == {0, 40}

\* a faulty variant: it lowers the ceiling by one for every accepted candidate
CeilingPassed_tightened(ceiling, accepted) == ceiling - accepted

\* the max_gec argument of a _solve_structure call, after `accepted`
\* satisfiable candidates
CeilingPassed(ceiling, accepted) == ceiling

Attempt(g, structure, outcome) ==
    [gate_num |-> g, structure |-> structure, outcome |-> outcome,
     max_gec |-> CeilingPassed(max_gec, CountSatisfiable(results))]

(***************************************************************************)
(* GECOptimizer.optimize_sbox                                              *)
(***************************************************************************)
\* head of "for gate_num in range(max_gates, 0, -1)" up to the inner loop
GEC_optimize_sbox_gate_count ==
    /\ entry = "GEC.optimize_sbox"
    /\ pc = "gate_loop"
    /\ IF GateCountsLeft(gate_num)
       THEN LET ds == GEC_generate_depth_combinations(bit_num, gate_num, gate_num)
            IN  IF ds = <<>>
                THEN /\ gate_num' = gate_num - 1
                     /\ UNCHANGED <<pc, depth_structures, idx, returned>>
                ELSE /\ depth_structures' = ds
                     /\ idx' = 1
                     /\ pc' = "struct_loop"
                     /\ UNCHANGED <<gate_num, returned>>
       ELSE /\ pc' = "done"
            /\ returned' = Some([results |-> results,
                                 best_solution |-> best_result])
            /\ UNCHANGED <<gate_num, depth_structures, idx>>
    /\ UNCHANGED <<threadVars, costVars, gateVars, codecVars, formulaVars, smt2Vars>>
    /\ UNCHANGED <<bit_num, max_depth, enumVars, encVars, argVars, gate_solutions,
                   all_solutions, solutions, best_result, results, attempts>>

\* one turn of "for structure in depth_structures"
GEC_optimize_sbox_structure ==
    /\ entry = "GEC.optimize_sbox"
    /\ pc = "struct_loop"
    /\ \E outcome \in Outcomes :
          LET structure == depth_structures[idx]
              result == GEC_solve_structure(gate_num, structure, outcome)
          IN  /\ attempts' = Append(attempts, Attempt(gate_num, structure, outcome))
              /\ IF outcome = "RAISE"
                 THEN /\ pc' = "raised"
                      /\ UNCHANGED <<results, best_result, idx>>
                 ELSE /\ results' = Append(results, result)
                      /\ IF result.satisfiable
                         THEN /\ best_result' =
                                    IF GEC_improves(best_result, gate_num)
                                    THEN Some(result) ELSE best_result
                              /\ pc' = "after_structs"
                              /\ UNCHANGED idx
                         ELSE /\ UNCHANGED best_result
                              /\ IF idx < Len(depth_structures)
                                 THEN idx' = idx + 1 /\ UNCHANGED pc
                                 ELSE pc' = "after_structs" /\ UNCHANGED idx
    /\ UNCHANGED <<threadVars, costVars, gateVars, codecVars, formulaVars, smt2Vars>>
    /\ UNCHANGED <<bit_num, gate_num, max_depth, enumVars, encVars, argVars,
                   depth_structures, gate_solutions, all_solutions, solutions,
                   returned>>

\* "if best_result: break" and the return that follows the loop
GEC_optimize_sbox_after ==
    /\ entry = "GEC.optimize_sbox"
    /\ pc = "after_structs"
    /\ IF best_result # None
       THEN /\ pc' = "done"
            /\ returned' = Some([results |-> results,
                                 best_solution |-> best_result])
            /\ UNCHANGED gate_num
       ELSE /\ gate_num' = gate_num - 1
            /\ pc' = "gate_loop"
            /\ UNCHANGED returned
    /\ UNCHANGED <<threadVars, costVars, gateVars, codecVars, formulaVars, smt2Vars>>
    /\ UNCHANGED <<bit_num, max_depth, enumVars, encVars, argVars, depth_structures,
                   idx, gate_solutions, all_solutions, solutions, best_result,
                   results, attempts>>

(***************************************************************************)
(* GECOptimizer.optimize_sbox_exhaustive                                   *)
(***************************************************************************)
GEC_exhaustive_gate_count ==
    /\ entry = "GEC.optimize_sbox_exhaustive"
    /\ pc = "gate_loop"
    /\ IF GateCountsLeft(gate_num)
       THEN LET ds == GEC_generate_depth_combinations(bit_num, gate_num, gate_num)
            IN  IF ds = <<>>
                THEN /\ gate_num' = gate_num - 1
                     /\ UNCHANGED <<pc, depth_structures, idx, gate_solutions,
                                    returned>>
                ELSE /\ depth_structures' = ds
                     /\ idx' = 1
                     /\ gate_solutions' = <<>>
                     /\ pc' = "struct_loop"
                     /\ UNCHANGED <<gate_num, returned>>
       ELSE /\ pc' = "done"
            /\ returned' = Some([results |-> results,
                                 all_solutions |-> all_solutions,
                                 best_solution |-> best_result])
            /\ UNCHANGED <<gate_num, depth_structures, idx, gate_solutions>>
    /\ UNCHANGED <<threadVars, costVars, gateVars, codecVars, formulaVars, smt2Vars>>
    /\ UNCHANGED <<bit_num, max_depth, enumVars, encVars, argVars, all_solutions,
                   solutions, best_result, results, attempts>>

\* a faulty variant: it leaves the structures at the first solution
GEC_leaves_structures_always(explore_all, found) == found # <<>>

\* "if not explore_all_structures and gate_solutions: break"
GEC_leaves_structures(explore_all, found) == ~explore_all /\ found # <<>>

\* "if gate_solutions and stop_on_first: break"
GEC_leaves_gate_counts(found, stop) == found # <<>> /\ stop

GEC_exhaustive_structure ==
    /\ entry = "GEC.optimize_sbox_exhaustive"
    /\ pc = "struct_loop"
    /\ \E outcome \in Outcomes :
          LET structure == depth_structures[idx]
              result == GEC_solve_structure(gate_num, structure, outcome)
              found == IF result.satisfiable
                       THEN Append(gate_solutions, result) ELSE gate_solutions
          IN  /\ attempts' = Append(attempts, Attempt(gate_num, structure, outcome))
              /\ IF outcome = "RAISE"
                 THEN /\ pc' = "raised"
                      /\ UNCHANGED <<results, best_result, idx, gate_solutions,
                                     all_solutions>>
                 ELSE /\ results' = Append(results, result)
                      /\ gate_solutions' = found
                      /\ all_solutions' = IF result.satisfiable
                                          THEN Append(all_solutions, result)
                                          ELSE all_solutions
                      /\ best_result' =
                            IF result.satisfiable /\ GEC_improves(best_result, gate_num)
                            THEN Some(result) ELSE best_result
                      /\ IF GEC_leaves_structures(explore_all_structures, found)
                            \/ idx = Len(depth_structures)
                         THEN pc' = "after_structs" /\ UNCHANGED idx
                         ELSE idx' = idx + 1 /\ UNCHANGED pc
    /\ UNCHANGED <<threadVars, costVars, gateVars, codecVars, formulaVars, smt2Vars>>
    /\ UNCHANGED <<bit_num, gate_num, max_depth, enumVars, encVars, argVars,
                   depth_structures, solutions, returned>>

\* "if gate_solutions and stop_on_first: break" and the return
GEC_exhaustive_after ==
    /\ entry = "GEC.optimize_sbox_exhaustive"
    /\ pc = "after_structs"
    /\ IF GEC_leaves_gate_counts(gate_solutions, stop_on_first)
       THEN /\ pc' = "done"
            /\ returned' = Some([results |-> results,
                                 all_solutions |-> all_solutions,
                                 best_solution |-> best_result])
            /\ UNCHANGED gate_num
       ELSE /\ gate_num' = gate_num - 1
            /\ pc' = "gate_loop"
            /\ UNCHANGED returned
    /\ UNCHANGED <<threadVars, costVars, gateVars, codecVars, formulaVars, smt2Vars>>
    /\ UNCHANGED <<bit_num, max_depth, enumVars, encVars, argVars, depth_structures,
                   idx, gate_solutions, all_solutions, solutions, best_result,
                   results, attempts>>

(***************************************************************************)
(* GECOptimizer.find_all_solutions_for_gates                               *)
(***************************************************************************)
\* the enumeration and the early return when it is empty
GEC_find_all_enumerate ==
    /\ entry = "GEC.find_all_solutions_for_gates"
    /\ pc = "enumerate"
    /\ LET ds == GEC_generate_depth_combinations(bit_num, gate_num, gate_num)
       IN  /\ depth_structures' = ds
           /\ IF ds = <<>>
              THEN /\ pc' = "done"
                   /\ returned' = Some([gate_num |-> gate_num,
                                        solutions |-> <<>>,
                                        total_structures_tested |-> 0,
                                        satisfiable_solutions |-> 0])
                   /\ UNCHANGED idx
              ELSE /\ pc' = "struct_loop"
                   /\ idx' = 1
                   /\ UNCHANGED returned
    /\ UNCHANGED <<threadVars, costVars, gateVars, codecVars, formulaVars, smt2Vars>>
    /\ UNCHANGED <<bit_num, gate_num, max_depth, enumVars, encVars, argVars,
                   gate_solutions, all_solutions, solutions, best_result, results,
                   attempts>>

\* one turn of "for i, structure in enumerate(depth_structures)"; the last
\* turn is followed by the return
GEC_find_all_structure ==
    /\ entry = "GEC.find_all_solutions_for_gates"
    /\ pc = "struct_loop"
    /\ \E outcome \in Outcomes :
          LET structure == depth_structures[idx]
              result == GEC_solve_structure(gate_num, structure, outcome)
              sols == IF GEC_is_solution(result)
                      THEN Append(solutions, result) ELSE solutions
          IN  /\ attempts' = Append(attempts, Attempt(gate_num, structure, outcome))
              /\ IF outcome = "RAISE"
                 THEN /\ pc' = "raised"
                      /\ UNCHANGED <<results, solutions, idx, returned>>
                 ELSE /\ results' = Append(results, result)
                      /\ solutions' = sols
                      /\ IF idx < Len(depth_structures)
                         THEN idx' = idx + 1 /\ UNCHANGED <<pc, returned>>
                         ELSE /\ pc' = "done"
                              /\ returned' =
                                    Some([gate_num |-> gate_num,
                                          solutions |-> sols,
                                          total_structures_tested |->
                                              Len(depth_structures),
                                          satisfiable_solutions |-> Len(sols)])
                              /\ UNCHANGED idx
    /\ UNCHANGED <<threadVars, costVars, gateVars, codecVars, formulaVars, smt2Vars>>
    /\ UNCHANGED <<bit_num, gate_num, max_depth, enumVars, encVars, argVars,
                   depth_structures, gate_solutions, all_solutions, best_result>>

(***************************************************************************)
(* BGCOptimizer.optimize_sbox                                              *)
(***************************************************************************)
BGC_return ==
    Some([best_solution |-> best_result,
          all_solutions |-> results,
          total_attempts |-> Len(results),
          satisfiable_solutions |-> CountSatisfiable(results)])

BGC_optimize_sbox_gate_count ==
    /\ entry = "BGC.optimize_sbox"
    /\ pc = "gate_loop"
    /\ IF GateCountsLeft(gate_num)
       THEN LET ds == BGC_generate_depth_combinations(bit_num, gate_num, max_depth)
            IN  /\ depth_structures' = ds
                /\ idx' = 1
                /\ pc' = IF ds = <<>> THEN "after_structs" ELSE "struct_loop"
                /\ UNCHANGED returned
       ELSE /\ pc' = "done"
            /\ returned' = BGC_return
            /\ UNCHANGED <<depth_structures, idx>>
    /\ UNCHANGED <<threadVars, costVars, gateVars, codecVars, formulaVars, smt2Vars>>
    /\ UNCHANGED <<bit_num, gate_num, max_depth, enumVars, encVars, argVars,
                   gate_solutions, all_solutions, solutions, best_result, results,
                   attempts>>

\* one turn of "for i, structure in enumerate(structures)"
BGC_optimize_sbox_structure ==
    /\ entry = "BGC.optimize_sbox"
    /\ pc = "struct_loop"
    /\ \E outcome \in Outcomes :
          LET structure == depth_structures[idx]
              result == BGC_solve_structure(gate_num, structure, outcome)
              sat == result # None /\ result[1].satisfiable
          IN  /\ attempts' = Append(attempts, Attempt(gate_num, structure, outcome))
              /\ results' = IF result # None
                            THEN Append(results, result[1]) ELSE results
              /\ best_result' = IF sat /\ BGC_improves(best_result, result[1])
                                THEN result ELSE best_result
              /\ IF (sat /\ stop_on_first) \/ idx = Len(depth_structures)
                 THEN pc' = "after_structs" /\ UNCHANGED idx
                 ELSE idx' = idx + 1 /\ UNCHANGED pc
    /\ UNCHANGED <<threadVars, costVars, gateVars, codecVars, formulaVars, smt2Vars>>
    /\ UNCHANGED <<bit_num, gate_num, max_depth, enumVars, encVars, argVars,
                   depth_structures, gate_solutions, all_solutions, solutions,
                   returned>>

\* "if best_result and stop_on_first: break" and the return
BGC_optimize_sbox_after ==
    /\ entry = "BGC.optimize_sbox"
    /\ pc = "after_structs"
    /\ IF BGC_stops_walk(best_result, stop_on_first)
       THEN /\ pc' = "done"
            /\ returned' = BGC_return
            /\ UNCHANGED gate_num
       ELSE /\ gate_num' = gate_num - 1
            /\ pc' = "gate_loop"
            /\ UNCHANGED returned
    /\ UNCHANGED <<threadVars, costVars, gateVars, codecVars, formulaVars, smt2Vars>>
    /\ UNCHANGED <<bit_num, max_depth, enumVars, encVars, argVars, depth_structures,
                   idx, gate_solutions, all_solutions, solutions, best_result,
                   results, attempts>>

(***************************************************************************)
(* BGCOptimizer.optimize_sbox_serial                                       *)
(***************************************************************************)
\* one turn of "for gate_count in range(max_gates, 0, -1)", or the return
BGC_serial_gate_count ==
    /\ entry = "BGC.optimize_sbox_serial"
    /\ pc = "gate_loop"
    /\ IF GateCountsLeft(gate_num)
       THEN \E outcome \in Outcomes :
               LET structure == BGC_generate_serial_structure(gate_num)
                   result == BGC_solve_structure(gate_num, structure, outcome)
                   sat == result # None /\ result[1].satisfiable
               IN  /\ attempts' =
                         Append(attempts, Attempt(gate_num, structure, outcome))
                   /\ results' = IF result # None
                                 THEN Append(results, result[1]) ELSE results
                   /\ best_result' = IF sat /\ BGC_improves(best_result, result[1])
                                     THEN result ELSE best_result
                   /\ IF sat /\ stop_on_first
                      THEN pc' = "after_structs" /\ UNCHANGED gate_num
                      ELSE gate_num' = gate_num - 1 /\ UNCHANGED pc
                   /\ UNCHANGED returned
       ELSE /\ pc' = "done"
            /\ returned' = BGC_return
            /\ UNCHANGED <<gate_num, results, best_result, attempts>>
    /\ UNCHANGED <<threadVars, costVars, gateVars, codecVars, formulaVars, smt2Vars>>
    /\ UNCHANGED <<bit_num, max_depth, enumVars, encVars, argVars, depth_structures,
                   idx, gate_solutions, all_solutions, solutions>>

\* the return that follows the break
BGC_serial_after ==
    /\ entry = "BGC.optimize_sbox_serial"
    /\ pc = "after_structs"
    /\ pc' = "done"
    /\ returned' = BGC_return
    /\ UNCHANGED <<threadVars, costVars, gateVars, codecVars, formulaVars, smt2Vars>>
    /\ UNCHANGED <<bit_num, gate_num, max_depth, enumVars, encVars, argVars,
                   depth_structures, idx, gate_solutions, all_solutions, solutions,
                   best_result, results, attempts>>

(***************************************************************************)
(* Specification of the searches: one call of one search method.           *)
(***************************************************************************)
SearchInit ==
    /\ EncIdle
    /\ ThreadIdle
    /\ CostIdle
    /\ GateIdle
    /\ CodecIdle
    /\ FormulaIdle
    /\ Smt2Idle
    /\ valid_structures = <<>>
    /\ bit_num \in 1..MaxBitNum
    /\ \/ /\ entry = "GEC.optimize_sbox"
          /\ max_gates \in 0..MaxGates
          /\ max_gec \in SearchCeilings
          /\ gate_num = max_gates
          /\ max_depth = 0
          /\ stop_on_first = FALSE
          /\ explore_all_structures = FALSE
          /\ pc = "gate_loop"
       \/ /\ entry = "GEC.optimize_sbox_exhaustive"
          /\ max_gates \in 0..MaxGates
          /\ max_gec \in SearchCeilings
          /\ gate_num = max_gates
          /\ max_depth = 0
          /\ stop_on_first \in BOOLEAN
          /\ explore_all_structures \in BOOLEAN
          /\ pc = "gate_loop"
       \/ /\ entry = "GEC.find_all_solutions_for_gates"
          /\ max_gates = 0
          /\ max_gec \in SearchCeilings
          /\ gate_num \in 0..MaxGates
          /\ max_depth = 0
          /\ stop_on_first = FALSE
          /\ explore_all_structures = FALSE
          /\ pc = "enumerate"
       \/ /\ entry = "BGC.optimize_sbox"
          /\ max_gates \in 0..MaxGates
          /\ max_gec = 0
          /\ gate_num = max_gates
          /\ max_depth \in 0..MaxDepth
          /\ stop_on_first \in BOOLEAN
          /\ explore_all_structures = FALSE
          /\ pc = "gate_loop"
       \/ /\ entry = "BGC.optimize_sbox_serial"
          /\ max_gates \in 0..MaxGates
          /\ max_gec = 0
          /\ gate_num = max_gates
          /\ max_depth = 0
          /\ stop_on_first \in BOOLEAN
          /\ explore_all_structures = FALSE
          /\ pc = "gate_loop"
    /\ depth_structures = <<>>
    /\ idx = 0
    /\ gate_solutions = <<>>
    /\ all_solutions = <<>>
    /\ solutions = <<>>
    /\ best_result = None
    /\ results = <<>>
    /\ attempts = <<>>
    /\ returned = None

SearchNext ==
    \/ GEC_optimize_sbox_gate_count
    \/ GEC_optimize_sbox_structure
    \/ GEC_optimize_sbox_after
    \/ GEC_exhaustive_gate_count
    \/ GEC_exhaustive_structure
    \/ GEC_exhaustive_after
    \/ GEC_find_all_enumerate
    \/ GEC_find_all_structure
    \/ BGC_optimize_sbox_gate_count
    \/ BGC_optimize_sbox_structure
    \/ BGC_optimize_sbox_after
    \/ BGC_serial_gate_count
    \/ BGC_serial_after

SpecSearch == SearchInit /\ [][SearchNext]_vars


(***************************************************************************)
(* Claims about the searches, checked under SpecSearch.                    *)
(***************************************************************************)
GateCountOf(r) == IF "gate_num" \in DOMAIN r THEN r.gate_num ELSE r.gate_count

SatAttempts == {j \in 1..Len(attempts) : attempts[j].outcome = "SAT"}

\* the runs that stop on the first satisfiable candidate
StopOnFirstRun ==
    \/ entry = "GEC.optimize_sbox"
    \/ /\ entry = "GEC.optimize_sbox_exhaustive"
       /\ stop_on_first
       /\ ~explore_all_structures
    \/ /\ entry \in {"BGC.optimize_sbox", "BGC.optimize_sbox_serial"}
       /\ stop_on_first

\* the searches that walk the gate counts and keep a best result
WalkRun ==
    entry \in {"GEC.optimize_sbox", "GEC.optimize_sbox_exhaustive",
               "BGC.optimize_sbox", "BGC.optimize_sbox_serial"}

\* C6: under stop-on-first, once a candidate is found satisfiable no further
\* candidate is encoded or solved, and it is the returned best_solution.
C6_StopOnFirst ==
    StopOnFirstRun =>
        \A j \in SatAttempts :
            /\ j = Len(attempts)
            /\ pc \in {"after_structs", "done"}
            /\ pc = "done" =>
                  /\ returned # None
                  /\ returned[1].best_solution # None
                  /\ returned[1].best_solution[1].satisfiable
                  /\ returned[1].best_solution[1].structure = attempts[j].structure
                  /\ GateCountOf(returned[1].best_solution[1]) = attempts[j].gate_num

\* a stop-on-first run that returned its hit with smaller gate counts untried
C6_Witness ==
    /\ StopOnFirstRun
    /\ pc = "done"
    /\ Len(attempts) >= 2
    /\ attempts[Len(attempts)].outcome = "SAT"
    /\ attempts[Len(attempts)].gate_num > 1

\* C7: when a search returns, best_solution is None exactly when no attempted
\* candidate was found satisfiable; otherwise it is a satisfiable recorded
\* result with the smallest gate count among the satisfiable recorded ones.
C7_BestSolution ==
    (WalkRun /\ pc = "done") =>
        /\ returned # None
        /\ (returned[1].best_solution = None) <=> (SatAttempts = {})
        /\ returned[1].best_solution # None =>
              LET best == returned[1].best_solution[1] IN
              /\ best.satisfiable
              /\ \E j \in 1..Len(results) : results[j] = best
              /\ \A j \in 1..Len(results) :
                    results[j].satisfiable =>
                        GateCountOf(best) <= GateCountOf(results[j])

\* a run that went on after its first hit and returned a smaller solution
C7_Witness ==
    /\ WalkRun
    /\ pc = "done"
    /\ returned[1].best_solution # None
    /\ \E j \in 1..Len(results) :
          /\ results[j].satisfiable
          /\ GateCountOf(results[j]) > GateCountOf(returned[1].best_solution[1])

\* the structures a search tries at gate count g
CandidatesAt(g) ==
    IF entry = "BGC.optimize_sbox"
    THEN BGC_generate_depth_combinations(bit_num, g, max_depth)
    ELSE IF entry = "BGC.optimize_sbox_serial"
    THEN <<BGC_generate_serial_structure(g)>>
    ELSE GEC_generate_depth_combinations(bit_num, g, g)

AttemptsDescend ==
    /\ \A j \in 1..(Len(attempts) - 1) :
          attempts[j].gate_num >= attempts[j + 1].gate_num
    /\ \A j \in 1..Len(attempts) : attempts[j].gate_num >= 1

\* C8 as stated: the gate counts of the attempted candidates are
\* non-increasing, start at max_gates and never go below 1.
C8_StartsAtMaxGates ==
    WalkRun =>
        /\ AttemptsDescend
        /\ attempts # <<>> => attempts[1].gate_num = max_gates

\* C8 as amended: the gate counts of the attempted candidates are
\* non-increasing and lie in 1..max_gates; the first one is the largest gate
\* count up to max_gates for which the search has a structure to try, which
\* is max_gates itself in the GEC searches and in the serial search.
C8_Descending ==
    WalkRun =>
        /\ AttemptsDescend
        /\ \A j \in 1..Len(attempts) : attempts[j].gate_num <= max_gates
        /\ attempts # <<>> =>
              /\ CandidatesAt(attempts[1].gate_num) # <<>>
              /\ \A g \in (attempts[1].gate_num + 1)..max_gates :
                    CandidatesAt(g) = <<>>
              /\ entry # "BGC.optimize_sbox" => attempts[1].gate_num = max_gates

\* a finished walk that came down from max_gates to one gate
C8_Witness ==
    /\ WalkRun
    /\ pc = "done"
    /\ Len(attempts) >= 2
    /\ attempts[1].gate_num = max_gates
    /\ attempts[Len(attempts)].gate_num = 1
    /\ max_gates > 1

\* C9: find_all_solutions_for_gates solves every enumerated structure
\* exactly once, without an early stop; its solutions are exactly the
\* structures reported satisfiable, and the two counts it returns are the
\* number of those and the number of enumerated structures.
C9_FindAll ==
    (entry = "GEC.find_all_solutions_for_gates" /\ pc = "done") =>
        LET r == returned[1] IN
        /\ Len(attempts) = Len(depth_structures)
        /\ \A j \in 1..Len(attempts) :
              /\ attempts[j].structure = depth_structures[j]
              /\ attempts[j].gate_num = gate_num
        /\ \A i, j \in 1..Len(depth_structures) :
              i # j => depth_structures[i] # depth_structures[j]
        /\ Range(depth_structures) =
              FeasibleCompositions(bit_num, gate_num, gate_num)
        /\ {r.solutions[j].structure : j \in 1..Len(r.solutions)} =
              {attempts[j].structure : j \in SatAttempts}
        /\ Len(r.solutions) = Cardinality(SatAttempts)
        /\ r.satisfiable_solutions = Cardinality(SatAttempts)
        /\ r.total_structures_tested = Len(depth_structures)

\* a finished call that met satisfiable and unsatisfiable structures
C9_Witness ==
    /\ entry = "GEC.find_all_solutions_for_gates"
    /\ pc = "done"
    /\ SatAttempts # {}
    /\ \E j \in 1..Len(attempts) : attempts[j].outcome = "UNSAT"


(***************************************************************************)
(* BGCOptimizer._execute_solver_threaded, called once per candidate by     *)
(* _solve_structure.  The calls are numbered 1, 2, ... in order; call k    *)
(* solves the CVC file of candidate k in thread k.  A solver result is     *)
(* tagged with the CVC file it was computed from.  A thread that has       *)
(* outlived its join keeps running while later calls are made.             *)
(***************************************************************************)
\* the value of "self.stp_solver.solve_file(cvc_file)" for the file of call k
SolverResult(k, sat) == [cvc_file |-> k, satisfiable |-> sat]

\* the thread of the call in progress
CurrentThread == Len(threads)

\* "self._thread_result = None"
BGC_thread_reset ==
    /\ pc = "reset"
    /\ Len(solver_results) < MaxCandidates
    /\ thread_result' = None
    /\ pc' = "start"
    /\ UNCHANGED <<threads, solver_results>>
    /\ UNCHANGED <<bit_num, gate_num, max_depth, enumVars, encVars, searchVars,
                   costVars, gateVars, codecVars, formulaVars, smt2Vars>>

\* "thread.start()"
BGC_thread_start ==
    /\ pc = "start"
    /\ threads' = Append(threads, "running")
    /\ pc' = "join"
    /\ UNCHANGED <<thread_result, solver_results>>
    /\ UNCHANGED <<bit_num, gate_num, max_depth, enumVars, encVars, searchVars,
                   costVars, gateVars, codecVars, formulaVars, smt2Vars>>

\* "thread.join(timeout=self.timeout)" returns because the thread has ended
BGC_thread_join_ended ==
    /\ pc = "join"
    /\ threads[CurrentThread] = "dead"
    /\ pc' = "is_alive"
    /\ UNCHANGED threadVars
    /\ UNCHANGED <<bit_num, gate_num, max_depth, enumVars, encVars, searchVars,
                   costVars, gateVars, codecVars, formulaVars, smt2Vars>>

\* "thread.join(timeout=self.timeout)" returns because the timeout elapsed
BGC_thread_join_timeout ==
    /\ pc = "join"
    /\ threads[CurrentThread] = "running"
    /\ pc' = "is_alive"
    /\ UNCHANGED threadVars
    /\ UNCHANGED <<bit_num, gate_num, max_depth, enumVars, encVars, searchVars,
                   costVars, gateVars, codecVars, formulaVars, smt2Vars>>

\* "if thread.is_alive(): return None"
BGC_thread_is_alive ==
    /\ pc = "is_alive"
    /\ IF threads[CurrentThread] = "running"
       THEN /\ solver_results' = Append(solver_results, None)
            /\ pc' = "reset"
       ELSE /\ pc' = "return"
            /\ UNCHANGED solver_results
    /\ UNCHANGED <<thread_result, threads>>
    /\ UNCHANGED <<bit_num, gate_num, max_depth, enumVars, encVars, searchVars,
                   costVars, gateVars, codecVars, formulaVars, smt2Vars>>

\* "return self._thread_result"
BGC_thread_return ==
    /\ pc = "return"
    /\ solver_results' = Append(solver_results, thread_result)
    /\ pc' = "reset"
    /\ UNCHANGED <<thread_result, threads>>
    /\ UNCHANGED <<bit_num, gate_num, max_depth, enumVars, encVars, searchVars,
                   costVars, gateVars, codecVars, formulaVars, smt2Vars>>

\* solver_thread of call k: solve_file returns and the result is stored
solver_thread_store(k) ==
    /\ threads[k] = "running"
    /\ \E sat \in BOOLEAN : thread_result' = Some(SolverResult(k, sat))
    /\ threads' = [threads EXCEPT ![k] = "dead"]
    /\ UNCHANGED solver_results
    /\ UNCHANGED <<callVars, enumVars, encVars, searchVars, costVars, gateVars,
                   codecVars, formulaVars, smt2Vars>>

\* solver_thread of call k: solve_file raises, the error is logged
solver_thread_error(k) ==
    /\ threads[k] = "running"
    /\ threads' = [threads EXCEPT ![k] = "dead"]
    /\ UNCHANGED <<thread_result, solver_results>>
    /\ UNCHANGED <<callVars, enumVars, encVars, searchVars, costVars, gateVars,
                   codecVars, formulaVars, smt2Vars>>

ThreadInit ==
    /\ EncIdle
    /\ SearchIdle
    /\ CostIdle
    /\ GateIdle
    /\ CodecIdle
    /\ FormulaIdle
    /\ Smt2Idle
    /\ valid_structures = <<>>
    /\ bit_num = 1
    /\ gate_num = 0
    /\ max_depth = 0
    /\ pc = "reset"
    /\ thread_result = None
    /\ threads = <<>>
    /\ solver_results = <<>>

ThreadNext ==
    \/ BGC_thread_reset
    \/ BGC_thread_start
    \/ BGC_thread_join_ended
    \/ BGC_thread_join_timeout
    \/ BGC_thread_is_alive
    \/ BGC_thread_return
    \/ \E k \in 1..Len(threads) : solver_thread_store(k)
    \/ \E k \in 1..Len(threads) : solver_thread_error(k)

SpecThread == ThreadInit /\ [][ThreadNext]_vars

\* C5: what _execute_solver_threaded returns for a candidate is either None
\* or the result the solver computed from that candidate's own CVC file; a
\* late write of an earlier candidate's thread is never returned for a later
\* candidate.
C5_OwnResult ==
    \A k \in 1..Len(solver_results) :
        solver_results[k] # None => solver_results[k][1].cvc_file = k


(***************************************************************************)
(* The cost part of the GEC problem: the Cost table, C_i = Cost[B_i],      *)
(* GEC = BVPLUS(8, C_0, ...) and BVLT(GEC, ceiling).  An assignment is     *)
(* built gate by gate; bit-vectors are written most significant bit first. *)
(***************************************************************************)
\* the value of a bit-vector literal
RECURSIVE BitsToNat(_)
BitsToNat(bits) ==
    IF bits = <<>> THEN 0
    ELSE 2 * BitsToNat(SubSeq(bits, 1, Len(bits) - 1)) + bits[Len(bits)]

RECURSIVE tobits(_, _)
tobits(num, bit_len) ==
    IF bit_len = 0 THEN <<>>
    ELSE Append(tobits(num \div 2, bit_len - 1), num % 2)

\* the bits v[hi:lo] of a bit-vector given by its value
Extract(v, hi, lo) == (v \div (2 ^ lo)) % (2 ^ (hi - lo + 1))

gate_values ==
    <<
       <<0,0,0,0,0,0,1,0>>, <<0,0,0,0,0,0,1,1>>, <<0,0,0,0,0,1,0,0>>,
       <<0,0,0,0,0,1,0,1>>, <<0,0,0,0,0,1,1,0>>, <<0,0,0,0,0,1,1,1>>,
       <<0,0,0,0,1,0,0,1>>, <<0,0,0,0,1,0,1,1>>, <<0,0,0,1,0,0,0,1>>,
       <<0,0,0,1,0,0,1,0>>, <<0,0,0,1,0,0,1,1>>, <<0,0,1,0,0,0,0,0>>,
       <<0,0,1,0,0,0,0,1>>, <<0,1,1,1,0,1,1,0>>, <<0,1,1,1,0,1,1,1>>,
       <<1,0,1,1,0,0,0,0>>, <<1,0,1,1,0,0,0,1>>
    >>

\* cost_matrix[technology + 1]: technology 0 is UMC 180nm, 1 is SMIC 130nm
cost_matrix ==
    << <<
          <<0,0,0,0,1,0,0,0>>, <<0,0,0,0,0,1,1,0>>, <<0,0,0,0,0,1,0,0>>,
          <<0,0,0,0,0,0,1,1>>, <<0,0,0,0,0,1,0,0>>, <<0,0,0,0,0,0,1,1>>,
          <<0,0,0,0,0,0,1,0>>, <<0,0,0,0,0,0,1,0>>, <<0,0,0,0,0,0,1,0>>,
          <<0,0,0,0,1,1,1,0>>, <<0,0,0,0,1,1,1,0>>, <<0,0,0,0,0,1,1,0>>,
          <<0,0,0,0,0,1,0,0>>, <<0,0,0,0,0,1,1,0>>, <<0,0,0,0,0,1,0,0>>,
          <<0,0,0,0,1,0,0,0>>, <<0,0,0,0,0,1,1,0>>
       >>,
       <<
          <<0,0,0,0,1,0,0,0>>, <<0,0,0,0,1,0,0,0>>, <<0,0,0,0,0,1,0,1>>,
          <<0,0,0,0,0,0,1,1>>, <<0,0,0,0,0,1,0,1>>, <<0,0,0,0,0,0,1,1>>,
          <<0,0,0,0,0,0,1,1>>, <<0,0,0,0,0,0,1,1>>, <<0,0,0,0,0,0,1,1>>,
          <<0,0,0,1,0,0,1,0>>, <<0,0,0,1,0,0,1,1>>, <<0,0,0,0,0,1,1,0>>,
          <<0,0,0,0,0,1,1,0>>, <<0,0,0,0,0,1,1,0>>, <<0,0,0,0,0,1,1,0>>,
          <<0,0,0,0,1,0,0,0>>, <<0,0,0,0,1,0,0,0>>
       >> >>

\* a faulty variant: it has no assertion for selector 00010000
ZeroCostSelectors_short ==
    { <<0,0,0,0,0,0,0,0>>, <<0,0,0,0,0,0,0,1>>, <<0,0,0,0,1,0,0,0>>,
      <<0,0,0,0,1,0,1,0>> }

\* the selectors whose cost is asserted to be zero
ZeroCostSelectors ==
    { <<0,0,0,0,0,0,0,0>>, <<0,0,0,0,0,0,0,1>>, <<0,0,0,0,1,0,0,0>>,
      <<0,0,0,0,1,0,1,0>>, <<0,0,0,1,0,0,0,0>> }

\* the width of the cost bit-vectors
CostBits == 8

\* the assertions "Cost[selector] = cost" of _generate_cost_constraints, as
\* pairs of values
CostAssertions(tech) ==
    {<<BitsToNat(z), 0>> : z \in ZeroCostSelectors}
    \cup {<<BitsToNat(gate_values[j]), BitsToNat(cost_matrix[tech + 1][j])>> :
              j \in 1..Len(gate_values)}

\* the values Cost[b] may take in an assignment that meets the assertions
CostValues(tech, b) ==
    LET asserted == {p \in CostAssertions(tech) : p[1] = b}
    IN  {c \in 0..(2 ^ CostBits - 1) : \A p \in asserted : p[2] = c}

\* a faulty variant: it admits every selector below 16
AdmittedByDefault_wider(b) == Extract(b, 7, 4) = 0

\* the default gate-type constraint on B_i (no gate_list given)
AdmittedByDefault(b) ==
    \/ Extract(b, 7, 3) = BitsToNat(<<0,0,0,0,0>>)
    \/ Extract(b, 7, 2) = BitsToNat(<<0,0,0,0,1,0>>)
    \/ Extract(b, 7, 2) = BitsToNat(<<0,0,0,1,0,0>>)
    \/ Extract(b, 7, 1) = BitsToNat(<<0,1,1,1,0,1,1>>)
    \/ Extract(b, 7, 1) = BitsToNat(<<0,0,1,0,0,0,0>>)
    \/ Extract(b, 7, 1) = BitsToNat(<<1,0,1,1,0,0,0>>)

DefaultSelectors == {b \in 0..(2 ^ CostBits - 1) : AdmittedByDefault(b)}

\* Cost[b] for the admitted selectors, per technology
CostTable ==
    [tech \in {0, 1} |-> [b \in DefaultSelectors |-> CostValues(tech, b)]]

BVPLUS(w, a, b) == (a + b) % (2 ^ w)

BVLT(a, b) == a < b

\* the ceilings the encoder is called with
Ceilings == {-1, 11, 40, 300}

\* "ASSERT( C_i = Cost[ B_i] )" and the i-th summand of BVPLUS, for one more
\* gate of the assignment
GEC_assign_gate ==
    /\ pc = "assign"
    /\ assigned < gate_num
    /\ \E b \in DefaultSelectors :
          \E c \in CostTable[technology][b] :
             /\ GEC' = BVPLUS(CostBits, GEC, c)
             /\ total' = total + c
    /\ assigned' = assigned + 1
    /\ UNCHANGED <<technology, min_gec, satisfied>>
    /\ UNCHANGED <<callVars, enumVars, encVars, searchVars, threadVars,
                   gateVars, codecVars, formulaVars, smt2Vars>>

\* "ASSERT( BVLT(GEC , 0bin{tobits(min_gec, 8)}) )" on the complete assignment
GEC_check_ceiling ==
    /\ pc = "assign"
    /\ assigned = gate_num
    /\ satisfied' = BVLT(GEC, BitsToNat(tobits(min_gec, CostBits)))
    /\ pc' = "assigned"
    /\ UNCHANGED <<technology, min_gec, assigned, GEC, total>>
    /\ UNCHANGED <<bit_num, gate_num, max_depth, enumVars, encVars, searchVars,
                   threadVars, gateVars, codecVars, formulaVars, smt2Vars>>

CostInit ==
    /\ EncIdle
    /\ SearchIdle
    /\ ThreadIdle
    /\ GateIdle
    /\ CodecIdle
    /\ FormulaIdle
    /\ Smt2Idle
    /\ valid_structures = <<>>
    /\ bit_num = 1
    /\ max_depth = 0
    /\ gate_num \in 1..MaxCostGates
    /\ technology \in {0, 1}
    /\ min_gec \in Ceilings
    /\ assigned = 0
    /\ GEC = 0
    /\ total = 0
    /\ satisfied = FALSE
    /\ pc = "assign"

CostNext ==
    \/ GEC_assign_gate
    \/ GEC_check_ceiling

SpecCost == CostInit /\ [][CostNext]_vars

\* C10: in every assignment that satisfies the cost constraints of a GEC
\* problem with ceiling min_gec, the sum of the gate costs taken as an
\* unbounded integer is strictly less than the ceiling.
C10_TotalBelowCeiling ==
    (pc = "assigned" /\ satisfied) => total < min_gec


(***************************************************************************)
(* The gate catalogue, the gate-type constraint on the selectors B_i and   *)
(* the gate operation, for one gate at one bit position.  The bit-vector   *)
(* operations of the gate operation are bitwise, so one position of the    *)
(* truth vectors stands for all of them.  gate_list is None or Some(list). *)
(***************************************************************************)
gate_types ==
    << "XOR", "XNOR", "AND", "NAND", "OR", "NOR", "NOT", "NOT", "NOT",
       "XOR3", "XNOR3", "AND3", "NAND3", "OR3", "NOR3", "MAOI1", "MOAI1" >>

\* "gate not in self.gate_types" for some gate of the list
validate_gate_list(list) ==
    \A j \in 1..Len(list) : list[j] \in Range(gate_types)

\* self.gate_types.index(gate_type): the first position holding the name
gate_index(gate_type) ==
    CHOOSE j \in 1..Len(gate_types) :
        /\ gate_types[j] = gate_type
        /\ \A k \in 1..(j - 1) : gate_types[k] # gate_type

get_gate_value(gate_type) == gate_values[gate_index(gate_type)]

\* the length from which a gate list is no longer used
GateListLimit == 17

\* "if gate_list and len(gate_list) > 0 and len(gate_list) < 17"
UsesGateList(gl) ==
    /\ gl # None
    /\ Len(gl[1]) > 0
    /\ Len(gl[1]) < GateListLimit

\* the selector values "( B_i = gate_val ) OR ..." admits
ListSelectors(list) ==
    {BitsToNat(get_gate_value(list[j])) : j \in 1..Len(list)}

Bit(v, k) == Extract(v, k, k)

XorBits(a, b) == (a + b) % 2

NotBit(a) == 1 - a

\* the term of the GEC gate operation that selector bit k guards
GEC_term_inputs_swapped(k, q) ==
    CASE k = 7 -> NotBit(q[1] * q[2]) * NotBit(q[3]) * q[4]
      [] k = 6 -> q[3] * XorBits(q[1], q[2])
      [] k = 5 -> q[1] * q[2] * q[3]
      [] k = 4 -> q[1]
      [] k = 3 -> q[2]
      [] k = 2 -> q[1] * q[2]
      [] k = 1 -> XorBits(q[1], q[2])
      [] k = 0 -> 1

GEC_term(k, q) ==
    CASE k = 7 -> NotBit(q[1] * q[2]) * NotBit(q[3]) * q[4]
      [] k = 6 -> q[3] * XorBits(q[1], q[2])
      [] k = 5 -> q[1] * q[2] * q[3]
      [] k = 4 -> q[3]
      [] k = 3 -> q[2]
      [] k = 2 -> q[1] * q[2]
      [] k = 1 -> XorBits(q[1], q[2])
      [] k = 0 -> 1

RECURSIVE GEC_xor_terms(_, _, _)
\* the BVXOR chain over the guarded terms k, k-1, ..., 0
GEC_xor_terms(b, q, k) ==
    IF k < 0 THEN 0
    ELSE XorBits(IF Bit(b, k) = 1 THEN GEC_term(k, q) ELSE 0,
                 GEC_xor_terms(b, q, k - 1))

\* T = BVXOR(IF B[7:7] = 1 THEN ... ELSE 0, BVXOR(... ))
GEC_gate_operation(b, q) == GEC_xor_terms(b, q, CostBits - 1)

\* the guarded terms of the GEC gate operation that selector b makes live
GEC_live_terms(b) == {k \in 0..(CostBits - 1) : Bit(b, k) = 1}

\* a faulty variant: it lets every selector value through
BGC_well_formed_any(b) == TRUE

\* "ASSERT( B_i[2:2] & B_i[0:0] = 0bin0 )"
BGC_well_formed(b) == Bit(b, 2) * Bit(b, 0) = 0

\* T = BVXOR(IF B[2:2] = 1 THEN Q1 & Q2, BVXOR(IF B[0:0] = 1 THEN ~Q1,
\*           IF B[1:1] = 1 THEN BVXOR(Q1, Q2)))
BGC_gate_operation(b, q) ==
    XorBits(IF Bit(b, 2) = 1 THEN q[1] * q[2] ELSE 0,
            XorBits(IF Bit(b, 0) = 1 THEN NotBit(q[1]) ELSE 0,
                    IF Bit(b, 1) = 1 THEN XorBits(q[1], q[2]) ELSE 0))

\* the guarded terms of the BGC gate operation that selector b makes live
BGC_live_terms(b) == {k \in 0..2 : Bit(b, k) = 1}

\* the gate lists the encoder is called with: none, the empty list, short
\* lists over the catalogue names and one unknown name, and lists around
\* the length limit with and without an unknown name
GateNames == Range(gate_types) \cup {"BUF"}

ShortLists ==
    UNION {[1..n -> GateNames] : n \in 0..MaxListLen}

LongLists ==
    LET full == gate_types
        most == SubSeq(gate_types, 1, GateListLimit - 1)
    IN  {full, [full EXCEPT ![1] = "BUF"], most, [most EXCEPT ![1] = "BUF"]}

GateLists == {None} \cup {Some(l) : l \in ShortLists \cup LongLists}

\* the gate-type part of generate_trivial_constraints
GEC_gate_type_constraints ==
    /\ pc = "types"
    /\ IF UsesGateList(gate_list)
       THEN IF ~validate_gate_list(gate_list[1])
            THEN /\ written' = "ValueError"
                 /\ pc' = "raised"
            ELSE /\ written' = "list"
                 /\ pc' = "select"
       ELSE /\ written' = "default"
            /\ pc' = "select"
    /\ UNCHANGED <<gate_list, B, Q, T>>
    /\ UNCHANGED <<bit_num, gate_num, max_depth, enumVars, encVars, searchVars,
                   threadVars, costVars, codecVars, formulaVars, smt2Vars>>

\* an assignment of B_i that meets the written constraint, and of the
\* gate's four input slots
GEC_select ==
    /\ pc = "select"
    /\ B' \in IF written = "list" THEN ListSelectors(gate_list[1])
              ELSE DefaultSelectors
    /\ Q' \in [1..4 -> {0, 1}]
    /\ pc' = "operate"
    /\ UNCHANGED <<gate_list, written, T>>
    /\ UNCHANGED <<bit_num, gate_num, max_depth, enumVars, encVars, searchVars,
                   threadVars, costVars, codecVars, formulaVars, smt2Vars>>

\* _generate_gate_operation of the GEC encoder
GEC_operate ==
    /\ pc = "operate"
    /\ T' = GEC_gate_operation(B, Q)
    /\ pc' = "evaluated"
    /\ UNCHANGED <<gate_list, written, B, Q>>
    /\ UNCHANGED <<bit_num, gate_num, max_depth, enumVars, encVars, searchVars,
                   threadVars, costVars, codecVars, formulaVars, smt2Vars>>

\* the gate-type part of generate_sbox_constraints (BGC): B_i has
\* self.size bits
BGC_select ==
    /\ pc = "BGC_types"
    /\ written' = "BGC"
    /\ B' \in {b \in 0..(2 ^ (2 ^ bit_num) - 1) : BGC_well_formed(b)}
    /\ Q' \in [1..2 -> {0, 1}]
    /\ pc' = "BGC_operate"
    /\ UNCHANGED <<gate_list, T>>
    /\ UNCHANGED <<bit_num, gate_num, max_depth, enumVars, encVars, searchVars,
                   threadVars, costVars, codecVars, formulaVars, smt2Vars>>

\* _generate_gate_operation of the BGC encoder
BGC_operate ==
    /\ pc = "BGC_operate"
    /\ T' = BGC_gate_operation(B, Q)
    /\ pc' = "BGC_evaluated"
    /\ UNCHANGED <<gate_list, written, B, Q>>
    /\ UNCHANGED <<bit_num, gate_num, max_depth, enumVars, encVars, searchVars,
                   threadVars, costVars, codecVars, formulaVars, smt2Vars>>

GateInit ==
    /\ EncIdle
    /\ SearchIdle
    /\ ThreadIdle
    /\ CostIdle
    /\ CodecIdle
    /\ FormulaIdle
    /\ Smt2Idle
    /\ valid_structures = <<>>
    /\ gate_num = 1
    /\ max_depth = 0
    /\ \/ /\ pc = "types"
          /\ bit_num = 1
          /\ gate_list \in GateLists
       \/ /\ pc = "BGC_types"
          /\ bit_num \in 2..MaxBitNum
          /\ gate_list = None
    /\ written = "nothing"
    /\ B = 0
    /\ Q = <<>>
    /\ T = 0

GateNext ==
    \/ GEC_gate_type_constraints
    \/ GEC_select
    \/ GEC_operate
    \/ BGC_select
    \/ BGC_operate

SpecGate == GateInit /\ [][GateNext]_vars


(***************************************************************************)
(* Claims about the gate types, checked under SpecGate.                    *)
(***************************************************************************)
\* the encodings of the catalogue, as numbers
CatalogueEncodings == {BitsToNat(gate_values[j]) : j \in 1..Len(gate_values)}

\* a GEC gate has been given a selector that meets the written constraint
GEC_selected == pc \in {"operate", "evaluated"}

\* a BGC gate has been given a selector that meets the written constraint
BGC_selected == pc \in {"BGC_operate", "BGC_evaluated"}

\* C11 as stated: with no gate list, the selector values the default
\* gate-type constraint admits are exactly the catalogue encodings.
C11_DefaultIsCatalogue ==
    (GEC_selected /\ gate_list = None) =>
        /\ written = "default"
        /\ B \in CatalogueEncodings
        /\ CatalogueEncodings \subseteq DefaultSelectors

\* what a gate computes under one of the selectors outside the catalogue
PassThrough(b, q) ==
    CASE b = 0 -> 0
      [] b = 1 -> 1
      [] b = 8 -> q[2]
      [] b = 10 -> q[1]
      [] b = 16 -> q[3]

\* C11 as amended: with no gate list, the default gate-type constraint admits
\* every catalogue encoding and, outside the catalogue, exactly the five
\* selectors whose cost is asserted to be zero (0, 1, 8, 10 and 16), under
\* which the gate is the constant 0, the constant 1 or a copy of Q1, Q0 or
\* Q2.
C11_DefaultAdmits ==
    (GEC_selected /\ gate_list = None) =>
        /\ written = "default"
        /\ CatalogueEncodings \subseteq DefaultSelectors
        /\ DefaultSelectors \ CatalogueEncodings =
              {BitsToNat(z) : z \in ZeroCostSelectors}
        /\ DefaultSelectors \ CatalogueEncodings = {0, 1, 8, 10, 16}
        /\ B \in DefaultSelectors
        /\ (pc = "evaluated" /\ B \notin CatalogueEncodings) =>
              T = PassThrough(B, Q)

\* a gate typed by the default constraint as a copy of Q0
C11_Witness ==
    /\ pc = "evaluated"
    /\ gate_list = None
    /\ written = "default"
    /\ B = 10
    /\ Q = <<1, 0, 0, 0>>
    /\ T = 1

AtLeast(n, q) == IF q[1] + q[2] + q[3] >= n THEN 1 ELSE 0

\* the Boolean function a catalogue name stands for; slot is the input the
\* NOT encoding at hand complements
NamedFunction(name, slot, q) ==
    CASE name = "XOR" -> IF q[1] # q[2] THEN 1 ELSE 0
      [] name = "XNOR" -> IF q[1] = q[2] THEN 1 ELSE 0
      [] name = "AND" -> IF q[1] = 1 /\ q[2] = 1 THEN 1 ELSE 0
      [] name = "NAND" -> IF q[1] = 1 /\ q[2] = 1 THEN 0 ELSE 1
      [] name = "OR" -> IF q[1] = 1 \/ q[2] = 1 THEN 1 ELSE 0
      [] name = "NOR" -> IF q[1] = 1 \/ q[2] = 1 THEN 0 ELSE 1
      [] name = "NOT" -> IF q[slot] = 1 THEN 0 ELSE 1
      [] name = "XOR3" -> (q[1] + q[2] + q[3]) % 2
      [] name = "XNOR3" -> (q[1] + q[2] + q[3] + 1) % 2
      [] name = "AND3" -> AtLeast(3, q)
      [] name = "NAND3" -> 1 - AtLeast(3, q)
      [] name = "OR3" -> AtLeast(1, q)
      [] name = "NOR3" -> 1 - AtLeast(1, q)

\* the catalogue entries C12 names
NamedEntries ==
    {j \in 1..Len(gate_types) : gate_types[j] \notin {"MAOI1", "MOAI1"}}

\* the input slots whose complement selector b computes on every input
ComplementedSlots(b) ==
    {s \in 1..4 : \A q \in [1..4 -> {0, 1}] :
                     GEC_gate_operation(b, q) = NotBit(q[s])}

\* C12: when B is the encoding of a catalogue entry, the gate operation
\* yields the named function of the inputs: the two-input functions of
\* (Q0, Q1), the three-input functions of (Q0, Q1, Q2), and for each NOT
\* encoding the complement of exactly one input slot.
C12_NamedFunction ==
    pc = "evaluated" =>
        \A j \in NamedEntries :
            B = BitsToNat(gate_values[j]) =>
                IF gate_types[j] = "NOT"
                THEN /\ Cardinality(ComplementedSlots(B)) = 1
                     /\ \A s \in ComplementedSlots(B) :
                           T = NamedFunction("NOT", s, Q)
                ELSE T = NamedFunction(gate_types[j], 1, Q)

\* an OR3 gate evaluated on an input with only Q2 set
C12_Witness ==
    /\ pc = "evaluated"
    /\ B = BitsToNat(get_gate_value("OR3"))
    /\ Q = <<0, 0, 1, 0>>
    /\ T = 1

\* C13 as stated: a well-formed selector value makes at most one guarded
\* term of the gate operation live.
C13_OneLiveTerm ==
    /\ (GEC_selected /\ B \in CatalogueEncodings) =>
          Cardinality(GEC_live_terms(B)) <= 1
    /\ BGC_selected => Cardinality(BGC_live_terms(B)) <= 1

\* C13 as amended: a catalogue encoding makes between one and six guarded
\* terms of the GEC gate operation live, and exactly one only for XOR, AND
\* and AND3; a value allowed by the BGC constraint never has the guards 2
\* and 0 both set, so at most two of the three BGC terms are live.
C13_LiveTerms ==
    /\ (GEC_selected /\ B \in CatalogueEncodings) =>
          /\ Cardinality(GEC_live_terms(B)) \in 1..6
          /\ Cardinality(GEC_live_terms(B)) = 1 <=>
                B \in {BitsToNat(get_gate_value(g)) : g \in {"XOR", "AND", "AND3"}}
    /\ BGC_selected =>
          /\ ~({0, 2} \subseteq BGC_live_terms(B))
          /\ Cardinality(BGC_live_terms(B)) <= 2

\* a NOR3 gate, whose encoding makes six terms live
C13_Witness ==
    /\ pc = "evaluated"
    /\ B = BitsToNat(get_gate_value("NOR3"))
    /\ Cardinality(GEC_live_terms(B)) = 6

\* C14: an empty gate list, or a list with a name outside the catalogue, is
\* rejected with an error when the gate-type constraint is encoded; the
\* default constraint is never written for it.
C14_BadListRejected ==
    (/\ pc # "types"
     /\ gate_list # None
     /\ (gate_list[1] = <<>> \/ ~validate_gate_list(gate_list[1]))) =>
        written = "ValueError"


(***************************************************************************)
(* Claims about ceilings and failures in the searches, checked under       *)
(* SpecSearch.                                                             *)
(***************************************************************************)
\* the searches of the cost variant
GEC_entries ==
    {"GEC.optimize_sbox", "GEC.optimize_sbox_exhaustive",
     "GEC.find_all_solutions_for_gates"}

\* C15: in the cost variant a ceiling max_gec <= 0 is rejected before any
\* problem is submitted to the solver: no candidate is encoded and solved
\* with a non-positive ceiling.
C15_NonPositiveRejected ==
    (entry \in GEC_entries /\ max_gec <= 0) => attempts = <<>>

\* the outcomes that are failures of one candidate
Failures == {"TIMEOUT", "RAISE"}

\* the candidate of the last attempt is the last one of the walk
LastCandidate ==
    LET a == attempts[Len(attempts)] IN
    /\ a.structure = CandidatesAt(a.gate_num)[Len(CandidatesAt(a.gate_num))]
    /\ entry # "GEC.find_all_solutions_for_gates" =>
          \A g \in 1..(a.gate_num - 1) : CandidatesAt(g) = <<>>

\* a search is over although the candidate that failed last was not the
\* last one of the walk
AbortedByFailure ==
    /\ attempts # <<>>
    /\ attempts[Len(attempts)].outcome \in Failures
    /\ pc \in {"done", "raised"}
    /\ ~LastCandidate

\* C16: a failure while one candidate is processed never aborts the search;
\* the search goes on to the next candidate of the walk.
C16_FailureNeverAborts ==
    /\ pc # "raised"
    /\ ~AbortedByFailure

\* the part of C16 that holds: the BGC searches
C16_BGC_FailureNeverAborts ==
    entry \in {"BGC.optimize_sbox", "BGC.optimize_sbox_serial"} =>
        /\ pc # "raised"
        /\ ~AbortedByFailure

\* the record a search keeps of a candidate, None when it keeps none
RecordOf(g, structure, outcome) ==
    IF entry \in GEC_entries
    THEN IF outcome = "RAISE" THEN None
         ELSE Some(GEC_solve_structure(g, structure, outcome))
    ELSE BGC_solve_structure(g, structure, outcome)

\* C17: the record of a candidate the solver timed out on differs from the
\* record the same candidate gets when the solver proves it unsatisfiable.
C17_TimeoutDistinct ==
    \A j \in 1..Len(attempts) :
        attempts[j].outcome = "TIMEOUT" =>
            /\ RecordOf(attempts[j].gate_num, attempts[j].structure, "TIMEOUT")
                  \in {Some(r) : r \in Range(results)}
            /\ RecordOf(attempts[j].gate_num, attempts[j].structure, "TIMEOUT")
                  # RecordOf(attempts[j].gate_num, attempts[j].structure, "UNSAT")

\* the part of C17 that holds: the GEC result dictionary
C17_GEC_TimeoutDistinct ==
    entry \in GEC_entries => C17_TimeoutDistinct

OutputOffers(y) ==
    {p \in 1..Len(fout) : fout[p].tok = "EQY" /\ fout[p].q = y}

\* C19: for every output bit Y_y the written output-selection constraint
\* offers exactly the outputs T_0 .. T_{gate_num-1} of all gates of the
\* candidate, each once, and no primary input, in both encoders.
C19_OutputsAreGates ==
    pc \in {"GEC_written", "BGC_written"} =>
        /\ gate_num = SumSeq(depth_structure)
        /\ \A y \in 0..(bit_num - 1) :
              /\ {<<fout[p].src, fout[p].i>> : p \in OutputOffers(y)} =
                    {<<"T", t>> : t \in 0..(gate_num - 1)}
              /\ Cardinality(OutputOffers(y)) = gate_num
        /\ \A p \in 1..Len(fout) :
              fout[p].tok = "EQY" => fout[p].q \in 0..(bit_num - 1)

\* a written problem with several output bits and several gates
C19_Witness ==
    /\ pc \in {"GEC_written", "BGC_written"}
    /\ bit_num >= 2
    /\ gate_num >= 3
    /\ Cardinality(OutputOffers(bit_num - 1)) = gate_num


(***************************************************************************)
(* The decomposition of an S-box into truth vectors: decompose_input and   *)
(* decompose_output of SboxConverter (GEC) and decompose_sbox of           *)
(* BGCConstraintGenerator (BGC).  A matrix is a sequence of bit_num rows   *)
(* of 2^bit_num bits; row j+1 of the model is row j of the code, position  *)
(* i+1 is position i.                                                      *)
(***************************************************************************)
MaxCodecBits == 2

\* a faulty variant: it does not compare the values with each other
validate_sbox_no_set(s, n) ==
    /\ Len(s) = 2 ^ n
    /\ \A i \in 1..Len(s) : 0 <= s[i] /\ s[i] <= 2 ^ n - 1

\* validate_sbox of utils.py: length, range and uniqueness of the values
validate_sbox(s, n) ==
    /\ Len(s) = 2 ^ n
    /\ \A i \in 1..Len(s) : 0 <= s[i] /\ s[i] <= 2 ^ n - 1
    /\ Cardinality(Range(s)) = Len(s)

\* a faulty variant: it stores the low bit in row 0
RECURSIVE decompose_value_low_first(_, _)
decompose_value_low_first(temp, j) ==
    IF j < 0 THEN <<>>
    ELSE <<temp % 2>> \o decompose_value_low_first(temp \div 2, j - 1)

\* the inner loop "for j in range(bit_num - 1, -1, -1)" on one value: it
\* stores temp % 2 in row j and goes on to row j - 1 with temp // 2.  The
\* result is the column of the matrix, rows 0..j.
RECURSIVE decompose_value(_, _)
decompose_value(temp, j) ==
    IF j < 0 THEN <<>>
    ELSE Append(decompose_value(temp \div 2, j - 1), temp % 2)

\* decompose_sbox(flag, sbox) of the BGC generator: the values are the
\* positions when flag is 0 and the S-box entries otherwise
decompose_sbox(flag, s, n) ==
    [j \in 1..n |->
        [i \in 1..(2 ^ n) |->
            decompose_value(IF flag = 0 THEN i - 1 ELSE s[i], n - 1)[j]]]

\* the two loops of SboxConverter.decompose_input
decompose_input(n) ==
    [j \in 1..n |-> [i \in 1..(2 ^ n) |-> decompose_value(i - 1, n - 1)[j]]]

\* the two loops of SboxConverter.decompose_output, after the validation
decompose_output(s, n) ==
    [j \in 1..n |-> [i \in 1..(2 ^ n) |-> decompose_value(s[i], n - 1)[j]]]

\* the S-boxes of width n: every permutation of 0..2^n-1
SboxPermutations(n) ==
    {[i \in 1..(2 ^ n) |-> f[i] - 1] : f \in Permutations(1..(2 ^ n))}

\* the identity and the reversal of 0..2^n-1
BaseSboxes(n) ==
    { [i \in 1..(2 ^ n) |-> i - 1], [i \in 1..(2 ^ n) |-> 2 ^ n - i] }

\* lists that are no S-box of width n (and a few that are): the empty
\* list, a list one entry short or one entry long, and a base S-box with
\* one position overwritten by a value of -1..2^n, which repeats a value
\* or leaves the range
InvalidSboxes(n) ==
    {<<>>}
    \cup {SubSeq(s, 1, 2 ^ n - 1) : s \in BaseSboxes(n)}
    \cup {Append(s, v) : s \in BaseSboxes(n), v \in {0, 2 ^ n}}
    \cup {[s EXCEPT ![p] = v] :
               s \in BaseSboxes(n), p \in 1..(2 ^ n), v \in -1..(2 ^ n)}

\* SboxConverter.decompose_input: the rows of the positions 0..size-1
GEC_decompose_input ==
    /\ pc = "codec"
    /\ A' = decompose_input(bit_num)
    /\ pc' = "GEC_inputs"
    /\ UNCHANGED <<bit_num, gate_num, max_depth, sbox, is_valid>>
    /\ UNCHANGED <<enumVars, encVars, searchVars, threadVars, costVars,
                   gateVars, formulaVars, smt2Vars>>

\* SboxConverter.decompose_output: ValueError unless sbox is valid
GEC_decompose_output ==
    /\ pc = "codec"
    /\ IF validate_sbox(sbox, bit_num)
       THEN /\ A' = decompose_output(sbox, bit_num)
            /\ pc' = "GEC_decomposed"
       ELSE /\ A' = A
            /\ pc' = "ValueError"
    /\ UNCHANGED <<bit_num, gate_num, max_depth, sbox, is_valid>>
    /\ UNCHANGED <<enumVars, encVars, searchVars, threadVars, costVars,
                   gateVars, formulaVars, smt2Vars>>

\* SboxConverter.validate_sbox: the result of validate_sbox, logged and
\* returned
GEC_validate_sbox ==
    /\ pc = "codec"
    /\ is_valid' = Some(validate_sbox(sbox, bit_num))
    /\ pc' = "validated"
    /\ UNCHANGED <<bit_num, gate_num, max_depth, sbox, A>>
    /\ UNCHANGED <<enumVars, encVars, searchVars, threadVars, costVars,
                   gateVars, formulaVars, smt2Vars>>

\* BGCConstraintGenerator.decompose_sbox(0, sbox): sbox is not read
BGC_decompose_positions ==
    /\ pc = "codec"
    /\ A' = decompose_sbox(0, sbox, bit_num)
    /\ pc' = "BGC_inputs"
    /\ UNCHANGED <<bit_num, gate_num, max_depth, sbox, is_valid>>
    /\ UNCHANGED <<enumVars, encVars, searchVars, threadVars, costVars,
                   gateVars, formulaVars, smt2Vars>>

\* BGCConstraintGenerator.decompose_sbox(1, sbox): no validation; sbox[i]
\* raises IndexError when the list is shorter than 2^bit_num
BGC_decompose_sbox ==
    /\ pc = "codec"
    /\ IF Len(sbox) >= 2 ^ bit_num
       THEN /\ A' = decompose_sbox(1, sbox, bit_num)
            /\ pc' = "BGC_decomposed"
       ELSE /\ A' = A
            /\ pc' = "IndexError"
    /\ UNCHANGED <<bit_num, gate_num, max_depth, sbox, is_valid>>
    /\ UNCHANGED <<enumVars, encVars, searchVars, threadVars, costVars,
                   gateVars, formulaVars, smt2Vars>>

CodecInit ==
    /\ EncIdle
    /\ SearchIdle
    /\ ThreadIdle
    /\ CostIdle
    /\ GateIdle
    /\ FormulaIdle
    /\ Smt2Idle
    /\ pc = "codec"
    /\ bit_num \in 1..MaxCodecBits
    /\ gate_num = 0
    /\ max_depth = 0
    /\ valid_structures = <<>>
    /\ sbox \in SboxPermutations(bit_num) \cup InvalidSboxes(bit_num)
    /\ A = <<>>
    /\ is_valid = None

CodecNext ==
    \/ GEC_validate_sbox
    \/ GEC_decompose_input
    \/ GEC_decompose_output
    \/ BGC_decompose_positions
    \/ BGC_decompose_sbox

SpecCodec == CodecInit /\ [][CodecNext]_vars

\* the value read back from position i of the rows of M, row 0 being the
\* most significant bit
RECURSIVE ReadBack(_, _, _)
ReadBack(M, i, rows) ==
    IF rows = 0 THEN 0 ELSE 2 * ReadBack(M, i, rows - 1) + M[rows][i]

\* bit j of value v counted from the most significant of n bits
BitFromTop(v, j, n) == (v \div 2 ^ (n - 1 - j)) % 2

\* C20: for every permutation sbox of 0..2^n-1, decompose_output (GEC) and
\* decompose_sbox with flag 1 (BGC) return n vectors of 2^n bits, vector j
\* holds at position i bit j of sbox[i] counted from the most significant
\* bit, and reading position i of the n vectors back gives sbox[i].
C20_RoundTrip ==
    (/\ pc \in {"GEC_decomposed", "BGC_decomposed"}
     /\ validate_sbox(sbox, bit_num)) =>
        /\ Len(A) = bit_num
        /\ \A j \in 1..bit_num :
              /\ Len(A[j]) = 2 ^ bit_num
              /\ \A i \in 1..(2 ^ bit_num) :
                    A[j][i] = BitFromTop(sbox[i], j - 1, bit_num)
        /\ \A i \in 1..(2 ^ bit_num) : ReadBack(A, i, bit_num) = sbox[i]

\* the permutation 2, 0, 3, 1 decomposed: no value reads the same from
\* both ends at every position, and it is not the identity
C20_Witness ==
    /\ pc \in {"GEC_decomposed", "BGC_decomposed"}
    /\ bit_num = 2
    /\ sbox = <<2, 0, 3, 1>>
    /\ A = <<<<1, 0, 1, 0>>, <<0, 0, 1, 1>>>>


\* the three defects of a list s as an S-box of width n
WrongLength(s, n) == Len(s) # 2 ^ n

OutOfRange(s, n) == \E i \in 1..Len(s) : s[i] < 0 \/ s[i] >= 2 ^ n

RepeatedValue(s) == \E i, j \in 1..Len(s) : i # j /\ s[i] = s[j]

\* s lists every value of 0..2^n-1 in 2^n entries
IsPermutation(s, n) ==
    /\ Len(s) = 2 ^ n
    /\ \A v \in 0..(2 ^ n - 1) : \E i \in 1..Len(s) : s[i] = v

\* C21: validate_sbox returns False whenever the length differs from
\* 2^bit_num, or a value is outside [0, 2^bit_num), or two values are
\* equal, and True for every permutation of 0..2^bit_num-1; it always
\* returns.
C21_ValidateSbox ==
    pc = "validated" =>
        /\ is_valid \in {Some(TRUE), Some(FALSE)}
        /\ (WrongLength(sbox, bit_num) \/ OutOfRange(sbox, bit_num)
               \/ RepeatedValue(sbox)) => is_valid = Some(FALSE)
        /\ IsPermutation(sbox, bit_num) => is_valid = Some(TRUE)

\* a list of the right length and range that repeats a value was refused
C21_Witness ==
    /\ pc = "validated"
    /\ ~WrongLength(sbox, bit_num)
    /\ ~OutOfRange(sbox, bit_num)
    /\ RepeatedValue(sbox)
    /\ is_valid = Some(FALSE)


(***************************************************************************)
(* The interpreter of a GEC solver output (FormulaGenerator).  The solver  *)
(* output assigns a value to every variable of the problem; a name is a    *)
(* pair <<family, index>> and a value a truth vector of 2^bit_num bits,    *)
(* kept as a number.  result_dict maps names to values; the Cost and GEC   *)
(* entries, which organize_variables skips, are left out.  A formula is a  *)
(* record of the left-hand side, the operator name, the operand names and  *)
(* the way it is written: "prefix" (T = NOT a), "infix" (T = a OP b) or    *)
(* "call" (T = OP(a, b)).                                                  *)
(***************************************************************************)
MaxFormulaBits == 2

MaxFormulaGates == 1

\* the gate operation applied to truth vectors: every position on its own
GEC_gate_vector(b, qv, size) ==
    BitsToNat([p \in 1..size |->
                  GEC_gate_operation(b, [k \in 1..4 |-> Bit(qv[k], size - p)])])

\* the value "X_j = 0bin..." the encoder fixes for primary input j
InputVector(n, j) == BitsToNat(decompose_input(n)[j + 1])

\* the assignment without the variable nm
Without(rd, nm) == [x \in DOMAIN rd \ {nm} |-> rd[x]]

\* the gates that have been assigned so far
AssignedGates(rd) == Cardinality({x \in DOMAIN rd : x[1] = "T"})

\* sorted(...): the members of a finite set of integers in ascending order
SortedSeq(S) ==
    CHOOSE s \in [1..Cardinality(S) -> S] :
        \A a, b \in 1..Cardinality(S) : a < b => s[a] < s[b]

\* organize_variables: for every family present, the values of its
\* variables in the order of their indices; the indices are dropped
organize_variables(rd) ==
    [fam \in {x[1] : x \in DOMAIN rd} |->
        LET indices == SortedSeq({x[2] : x \in {y \in DOMAIN rd : y[1] = fam}})
        IN  [k \in 1..Len(indices) |-> rd[<<fam, indices[k]>>]]]

\* list.index(value): the first position holding value, counted from 0
IndexOf(list, value) ==
    (CHOOSE k \in 1..Len(list) :
        /\ list[k] = value
        /\ \A m \in 1..(k - 1) : list[m] # value) - 1

\* a faulty variant: it takes any matching gate output
find_variable_name_any_gate(value, X_list, T_list, current_t_index) ==
    IF value \in Range(X_list) THEN <<"X", IndexOf(X_list, value)>>
    ELSE IF value \in Range(T_list)
    THEN <<"T", IndexOf(T_list, value)>>
    ELSE <<"VAR", value>>

\* _find_variable_name
find_variable_name(value, X_list, T_list, current_t_index) ==
    IF value \in Range(X_list) THEN <<"X", IndexOf(X_list, value)>>
    ELSE IF value \in Range(T_list)
            /\ IndexOf(T_list, value) < current_t_index
    THEN <<"T", IndexOf(T_list, value)>>
    ELSE <<"VAR", value>>

\* self.gate_types.get(gate_type_hex.upper(), f"GATE_{gate_type_hex}"): the
\* table has the names of the gate library under their encodings
formula_gate_type(b) ==
    IF \E j \in 1..Len(gate_values) : BitsToNat(gate_values[j]) = b
    THEN gate_types[CHOOSE j \in 1..Len(gate_values) :
                        BitsToNat(gate_values[j]) = b]
    ELSE "GATE"

\* name == "VAR_0000": the value 0 printed with four hexadecimal digits
IsVar0000(name, n) == name = <<"VAR", 0>> /\ 2 ^ n = 16

TwoOperandNames ==
    { "AND", "OR", "XOR", "NAND", "NOR", "XNOR",
      "AND3", "OR3", "XOR3", "NAND3", "NOR3", "XNOR3" }

\* _generate_gate_formula; q2_name is None or Some(name)
generate_gate_formula(index, gate_type, q1_name, q2_name, n) ==
    IF gate_type = "NOT"
    THEN [lhs |-> <<"T", index>>, op |-> "NOT", form |-> "prefix",
          args |-> IF ~IsVar0000(q1_name, n) THEN <<q1_name>>
                   ELSE IF q2_name # None /\ ~IsVar0000(q2_name[1], n)
                   THEN q2_name
                   ELSE <<q1_name>>]
    ELSE [lhs |-> <<"T", index>>, op |-> gate_type,
          form |-> IF gate_type \in TwoOperandNames /\ q2_name # None
                   THEN "infix" ELSE "call",
          args |-> <<q1_name>> \o q2_name]

\* the gates the loop "for i, gate_type_hex in enumerate(B)" reaches before
\* "if i * 2 + 1 >= len(Q): break"
GatesReached(B_list, Q_list) ==
    {i \in 0..(Len(B_list) - 1) : i * 2 + 1 < Len(Q_list)}

\* the formula of gate i: q1 = Q[i * 4], q2 = Q[i * 4 + 1] if present
gate_formula(i, B_list, Q_list, X_list, T_list, n) ==
    LET q1_name == find_variable_name(Q_list[i * 4 + 1], X_list, T_list, i)
        q2_name == IF i * 4 + 1 < Len(Q_list)
                   THEN Some(find_variable_name(Q_list[i * 4 + 2],
                                                X_list, T_list, i))
                   ELSE None
    IN  generate_gate_formula(i, formula_gate_type(B_list[i + 1]),
                              q1_name, q2_name, n)

\* the loop "for i, y_value in enumerate(Y)": a gate output is preferred
\* to a primary input, and an output that matches neither gets no formula
output_formula(i, y_value, X_list, T_list) ==
    IF y_value \in Range(T_list)
    THEN <<[lhs |-> <<"Y", i>>, op |-> "=", form |-> "prefix",
            args |-> <<<<"T", IndexOf(T_list, y_value)>>>>]>>
    ELSE IF y_value \in Range(X_list)
    THEN <<[lhs |-> <<"Y", i>>, op |-> "=", form |-> "prefix",
            args |-> <<<<"X", IndexOf(X_list, y_value)>>>>]>>
    ELSE <<>>

RequiredKeys == {"X", "Y", "B", "T", "Q"}

\* generate_formulas, for arrays that have every required family and whose
\* Q list is long enough for Q[i * 4]
generate_formulas(arr, n) ==
    LET reached == SortedSeq(GatesReached(arr["B"], arr["Q"]))
    IN  [k \in 1..Len(reached) |->
            gate_formula(reached[k], arr["B"], arr["Q"], arr["X"], arr["T"], n)]
        \o Flatten([y \in 1..Len(arr["Y"]) |->
                       output_formula(y - 1, arr["Y"][y], arr["X"], arr["T"])])

\* the signals gate i may read: the primary inputs and the earlier outputs
Readable(rd, n, i) ==
    {<<"X", j>> : j \in 0..(n - 1)} \cup {<<"T", t>> : t \in 0..(i - 1)}

\* the solver assigns one more gate: a selector the default gate-type
\* constraint admits, a readable signal for each of the four slots, and the
\* output the gate operation gives
STP_assign_gate ==
    /\ pc = "stp"
    /\ AssignedGates(result_dict) < gate_num
    /\ LET i == AssignedGates(result_dict)
       IN  \E b \in DefaultSelectors :
             \E src \in [1..4 -> Readable(result_dict, bit_num, i)] :
               LET qv == [k \in 1..4 |-> result_dict[src[k]]]
                   t == GEC_gate_vector(b, qv, 2 ^ bit_num)
               IN  result_dict' =
                       [x \in DOMAIN result_dict
                                \cup {<<"Q", 4 * i + k>> : k \in 0..3}
                                \cup {<<"B", i>>, <<"T", i>>} |->
                           IF x \in DOMAIN result_dict THEN result_dict[x]
                           ELSE IF x[1] = "Q" THEN qv[x[2] - 4 * i + 1]
                           ELSE IF x[1] = "B" THEN b
                           ELSE t]
    /\ UNCHANGED <<pc, bit_num, gate_num, max_depth, arrays, formulas, lookup>>
    /\ UNCHANGED <<enumVars, encVars, searchVars, threadVars, costVars,
                   gateVars, codecVars, smt2Vars>>

\* the solver assigns the outputs: each Y_y equals some gate output
STP_assign_outputs ==
    /\ pc = "stp"
    /\ AssignedGates(result_dict) = gate_num
    /\ \E sel \in [0..(bit_num - 1) -> 0..(gate_num - 1)] :
          result_dict' =
              [x \in DOMAIN result_dict
                       \cup {<<"Y", y>> : y \in 0..(bit_num - 1)} |->
                  IF x \in DOMAIN result_dict THEN result_dict[x]
                  ELSE result_dict[<<"T", sel[x[2]]>>]]
    /\ pc' = "stp_output"
    /\ UNCHANGED <<bit_num, gate_num, max_depth, arrays, formulas, lookup>>
    /\ UNCHANGED <<enumVars, encVars, searchVars, threadVars, costVars,
                   gateVars, codecVars, smt2Vars>>

\* parse_stp_output keeps the lines its pattern matches: an output file
\* that lacks the line of one variable gives an assignment without it
Formula_parse_partial ==
    /\ pc = "stp_output"
    /\ \E nm \in DOMAIN result_dict : result_dict' = Without(result_dict, nm)
    /\ pc' = "stp_partial"
    /\ UNCHANGED <<bit_num, gate_num, max_depth, arrays, formulas, lookup>>
    /\ UNCHANGED <<enumVars, encVars, searchVars, threadVars, costVars,
                   gateVars, codecVars, smt2Vars>>

\* arrays = self.organize_variables(result_dict)
Formula_organize ==
    /\ pc \in {"stp_output", "stp_partial"}
    /\ arrays' = organize_variables(result_dict)
    /\ pc' = "organized"
    /\ UNCHANGED <<bit_num, gate_num, max_depth, result_dict, formulas, lookup>>
    /\ UNCHANGED <<enumVars, encVars, searchVars, threadVars, costVars,
                   gateVars, codecVars, smt2Vars>>

\* formulas = self.generate_formulas(arrays, output_format): a warning and
\* no formula when a family is absent, IndexError when Q[i * 4] is read
\* past the end of Q
Formula_generate ==
    /\ pc = "organized"
    /\ IF ~(RequiredKeys \subseteq DOMAIN arrays)
       THEN /\ formulas' = <<>>
            /\ pc' = "warned"
       ELSE IF \E i \in GatesReached(arrays["B"], arrays["Q"]) :
                   i * 4 >= Len(arrays["Q"])
       THEN /\ formulas' = formulas
            /\ pc' = "IndexError"
       ELSE /\ formulas' = generate_formulas(arrays, bit_num)
            /\ pc' = "formulas"
    /\ UNCHANGED <<bit_num, gate_num, max_depth, result_dict, arrays, lookup>>
    /\ UNCHANGED <<enumVars, encVars, searchVars, threadVars, costVars,
                   gateVars, codecVars, smt2Vars>>

FormulaInit ==
    /\ EncIdle
    /\ SearchIdle
    /\ ThreadIdle
    /\ CostIdle
    /\ GateIdle
    /\ CodecIdle
    /\ Smt2Idle
    /\ pc = "stp"
    /\ bit_num \in 2..MaxFormulaBits
    /\ gate_num \in 1..MaxFormulaGates
    /\ max_depth = 0
    /\ valid_structures = <<>>
    /\ result_dict = [x \in {<<"X", j>> : j \in 0..(bit_num - 1)} |->
                         InputVector(bit_num, x[2])]
    /\ arrays = <<>>
    /\ formulas = <<>>
    /\ lookup = None

FormulaNext ==
    \/ STP_assign_gate
    \/ STP_assign_outputs
    \/ Formula_parse_partial
    \/ Formula_organize
    \/ Formula_generate

SpecFormula == FormulaInit /\ [][FormulaNext]_vars

(***************************************************************************)
(* _find_variable_name on its own, for the lists of values X and T of any  *)
(* assignment.  The primary inputs have pairwise different values; a gate  *)
(* output may have the value of a primary input or of another gate.        *)
(***************************************************************************)
MaxResolveLen == 3

\* the lists of length lo..hi over the values 0..MaxResolveLen-1
ValueLists(lo, hi) ==
    UNION {[1..len -> 0..(MaxResolveLen - 1)] : len \in lo..hi}

\* FormulaGenerator._find_variable_name(value, X, T, current_t_index)
GEC_find_variable_name ==
    /\ pc = "resolve"
    /\ lookup' = [lookup EXCEPT !.name =
                      Some(find_variable_name(lookup.value, arrays["X"],
                                              arrays["T"],
                                              lookup.current_t_index))]
    /\ pc' = "GEC_resolved"
    /\ UNCHANGED <<bit_num, gate_num, max_depth, result_dict, arrays, formulas>>
    /\ UNCHANGED <<enumVars, encVars, searchVars, threadVars, costVars,
                   gateVars, codecVars, smt2Vars>>

\* BGCFormulaGenerator._find_variable_name: the same statements
BGC_find_variable_name ==
    /\ pc = "resolve"
    /\ lookup' = [lookup EXCEPT !.name =
                      Some(find_variable_name(lookup.value, arrays["X"],
                                              arrays["T"],
                                              lookup.current_t_index))]
    /\ pc' = "BGC_resolved"
    /\ UNCHANGED <<bit_num, gate_num, max_depth, result_dict, arrays, formulas>>
    /\ UNCHANGED <<enumVars, encVars, searchVars, threadVars, costVars,
                   gateVars, codecVars, smt2Vars>>

ResolveInit ==
    /\ EncIdle
    /\ SearchIdle
    /\ ThreadIdle
    /\ CostIdle
    /\ GateIdle
    /\ CodecIdle
    /\ Smt2Idle
    /\ pc = "resolve"
    /\ bit_num \in 1..MaxFormulaBits
    /\ gate_num \in 0..MaxResolveLen
    /\ max_depth = 0
    /\ valid_structures = <<>>
    /\ result_dict = <<>>
    /\ formulas = <<>>
    /\ \E X_list \in ValueLists(bit_num, bit_num) :
       \E T_list \in ValueLists(gate_num, gate_num) :
          /\ Cardinality(Range(X_list)) = Len(X_list)
          /\ arrays = [X |-> X_list, T |-> T_list]
    /\ \E value \in 0..(MaxResolveLen - 1) :
       \E current_t_index \in 0..MaxResolveLen :
          lookup = [value |-> value, current_t_index |-> current_t_index,
                    name |-> None]

ResolveNext ==
    \/ GEC_find_variable_name
    \/ BGC_find_variable_name

SpecResolve == ResolveInit /\ [][ResolveNext]_vars


(***************************************************************************)
(* Claims about the interpreter, checked under SpecFormula.                *)
(***************************************************************************)
\* the assignment has every variable of the problem
CompleteAssignment ==
    Cardinality(DOMAIN result_dict) = 2 * bit_num + 6 * gate_num

\* the number of inputs the function of a catalogue name has
Arity(name) ==
    CASE name = "NOT" -> 1
      [] name \in {"XOR", "XNOR", "AND", "NAND", "OR", "NOR"} -> 2
      [] name \in {"XOR3", "XNOR3", "AND3", "NAND3", "OR3", "NOR3"} -> 3
      [] OTHER -> 4

\* the value of a signal a formula names
ValueOf(name) == IF name[1] = "VAR" THEN name[2] ELSE result_dict[name]

\* the truth vector a formula with one or two operands denotes: the named
\* function of the operands, position by position
FormulaValue(f, size) ==
    LET a == ValueOf(f.args[1])
        b == ValueOf(f.args[Len(f.args)])
    IN  BitsToNat([p \in 1..size |->
            NamedFunction(f.op, 1,
                          <<Bit(a, size - p), Bit(b, size - p), 0, 0>>)])

\* C22: for every gate whose selector is a catalogue encoding, the formula
\* the interpreter emits names as many input signals as the function of its
\* gate name has, and the named function of the named signals is the output
\* the encoder's gate operation gives that gate.
C22_FaithfulInterpretation ==
    (pc = "formulas" /\ CompleteAssignment) =>
        \A k \in 1..Len(formulas) :
            LET f == formulas[k]
            IN  (/\ f.lhs[1] = "T"
                 /\ result_dict[<<"B", f.lhs[2]>>] \in CatalogueEncodings) =>
                    /\ Len(f.args) = Arity(f.op)
                    /\ FormulaValue(f, 2 ^ bit_num) = result_dict[<<"T", f.lhs[2]>>]


\* the interpreter has finished, one way or another
Interpreted == pc \in {"formulas", "warned", "IndexError"}

\* the variables of the problem the assignment lacks
MissingVariables ==
    ({<<"X", j>> : j \in 0..(bit_num - 1)}
        \cup {<<"Y", j>> : j \in 0..(bit_num - 1)}
        \cup {<<"B", i>> : i \in 0..(gate_num - 1)}
        \cup {<<"T", i>> : i \in 0..(gate_num - 1)}
        \cup {<<"Q", q>> : q \in 0..(4 * gate_num - 1)}) \ DOMAIN result_dict

\* C23: when the assignment lacks a variable while other members of its
\* family are present, the interpreter reports an error and returns no
\* formula.
C23_PartialReported ==
    (/\ Interpreted
     /\ \E nm \in MissingVariables : nm[1] \in DOMAIN arrays) =>
        /\ pc # "formulas"
        /\ formulas = <<>>


(***************************************************************************)
(* Claim about the resolution of names, checked under SpecResolve.         *)
(***************************************************************************)
Resolved == pc \in {"GEC_resolved", "BGC_resolved"}

\* the indices, counted from 0, at which list holds value
Matches(list, value) == {k \in 0..(Len(list) - 1) : list[k + 1] = value}

\* the least member of a non-empty set of integers
Least(S) == CHOOSE k \in S : \A m \in S : k <= m

\* C24: _find_variable_name resolves a value to the primary input with the
\* lowest matching index if a primary input matches, otherwise to the
\* matching gate output with the lowest index, provided that index is below
\* the consuming gate; a resolved gate output always has an index strictly
\* lower than the consuming gate, and holds the value.
C24_EarliestDeclared ==
    Resolved =>
        LET value == lookup.value
            current == lookup.current_t_index
            inX == Matches(arrays["X"], value)
            inT == Matches(arrays["T"], value)
            name == lookup.name[1]
        IN  /\ inX # {} => name = <<"X", Least(inX)>>
            /\ (inX = {} /\ \E k \in inT : k < current) =>
                   name = <<"T", Least(inT)>>
            /\ name[1] = "T" => name[2] < current /\ name[2] \in inT
            /\ (inX = {} /\ ~\E k \in inT : k < current) =>
                   name = <<"VAR", value>>

\* a value no primary input has, held by two gate outputs below the
\* consuming gate, resolved to the lower one
C24_Witness ==
    /\ Resolved
    /\ Matches(arrays["X"], lookup.value) = {}
    /\ Cardinality({k \in Matches(arrays["T"], lookup.value) :
                       k < lookup.current_t_index}) >= 2
    /\ lookup.name = Some(<<"T", Least(Matches(arrays["T"], lookup.value))>>)


(***************************************************************************)
(* Further claims about the searches, checked under SpecSearch.            *)
(***************************************************************************)
SerialRun == entry = "BGC.optimize_sbox_serial"

\* a structure of g levels with one gate each
AllOnes(structure, g) ==
    /\ Len(structure) = g
    /\ \A j \in 1..Len(structure) : structure[j] = 1

\* C25: optimize_sbox_serial attempts one candidate per gate count, whose
\* structure is [1,...,1] of length gate count; every result it keeps or
\* returns, best_solution included, has such a structure with depth equal
\* to the gate count, and the structure passes the feasibility check for
\* the bit width of the run.
C25_SerialStructure ==
    SerialRun =>
        /\ \A j \in 1..Len(attempts) :
              /\ AllOnes(attempts[j].structure, attempts[j].gate_num)
              /\ BGC_validate_structure(bit_num, attempts[j].structure)
              /\ \A k \in 1..Len(attempts) :
                    attempts[k].gate_num = attempts[j].gate_num => k = j
        /\ \A j \in 1..Len(results) :
              /\ AllOnes(results[j].structure, results[j].gate_count)
              /\ results[j].depth = results[j].gate_count
        /\ best_result # None =>
              AllOnes(best_result[1].structure, best_result[1].gate_count)
        /\ returned # None =>
              /\ returned[1].all_solutions = results
              /\ returned[1].best_solution = best_result
        /\ \A n \in 1..MaxBitNum, g \in 1..MaxGateNum :
              BGC_validate_structure(n, BGC_generate_serial_structure(g))

\* a serial search that tried two gate counts and returned a best solution
C25_Witness ==
    /\ SerialRun
    /\ pc = "done"
    /\ Len(attempts) >= 2
    /\ returned # None
    /\ returned[1].best_solution # None
    /\ Len(returned[1].best_solution[1].structure) >= 2


ExhaustiveRun == entry = "GEC.optimize_sbox_exhaustive"

\* the attempts made at gate count g, and the satisfiable ones among them
AttemptsAt(g) == {j \in 1..Len(attempts) : attempts[j].gate_num = g}

SatAt(g) == AttemptsAt(g) \cap SatAttempts

\* the search has left the structures of gate count g behind
Finished(g) ==
    \/ g > gate_num
    \/ g = gate_num /\ pc \in {"after_structs", "done"}

\* C26: in optimize_sbox_exhaustive explore_all_structures alone decides
\* whether the remaining structures of a gate count are solved after a
\* satisfiable one (when it is False a satisfiable attempt is the last of
\* its gate count; when it is True every structure of a finished gate count
\* was attempted), and stop_on_first alone decides whether smaller gate
\* counts are attempted after a gate count with a solution (when it is True
\* none is; when it is False every gate count down to 1 is walked).
C26_IndependentPolicies ==
    ExhaustiveRun =>
        /\ ~explore_all_structures =>
              \A g \in 1..max_gates :
                 /\ Cardinality(SatAt(g)) <= 1
                 /\ \A j \in SatAt(g) : \A k \in AttemptsAt(g) : k <= j
        /\ explore_all_structures =>
              \A g \in 1..max_gates :
                 Finished(g) =>
                    Cardinality(AttemptsAt(g)) = Len(CandidatesAt(g))
        /\ stop_on_first =>
              \A j \in SatAttempts : \A k \in 1..Len(attempts) :
                 attempts[k].gate_num >= attempts[j].gate_num
        /\ ~stop_on_first =>
              /\ pc = "done" => gate_num = 0
              /\ \A g \in 1..max_gates :
                    (Finished(g) /\ Len(CandidatesAt(g)) > 0) =>
                        AttemptsAt(g) # {}

\* every structure of the largest gate count was solved although the first
\* one was satisfiable, and the search then stopped without a smaller count
C26_Witness ==
    /\ ExhaustiveRun
    /\ explore_all_structures
    /\ stop_on_first
    /\ pc = "done"
    /\ Len(attempts) >= 2
    /\ attempts[1].outcome = "SAT"
    /\ \A j \in 1..Len(attempts) : attempts[j].gate_num = max_gates
    /\ max_gates >= 2


(***************************************************************************)
(* Further claims about the written constraints, checked under SpecEnc.    *)
(***************************************************************************)
\* the slots written so far, as pairs <<gate, slot within the gate>>
WrittenSlots ==
    {<<fout[r].i, k>> : r \in {p \in 1..Len(fout) : fout[p].tok = "GATE"},
                        k \in 0..(SlotsPerGate - 1)}

\* the number of the Q variable of slot k of gate t
SlotVariable(t, k) == SlotsPerGate * t + k

\* the primary inputs offered to Q variable q
InputsOffered(q) ==
    {fout[p].i : p \in {r \in OfferedAt : fout[r].q = q /\ fout[r].src = "X"}}

AllInputs == 0..(bit_num - 1)

\* C27 as stated: every input slot of every gate at every depth level is
\* offered every primary input X_0..X_{n-1}.
C27_EveryInputOffered ==
    \A s \in WrittenSlots : InputsOffered(SlotVariable(s[1], s[2])) = AllInputs

\* the slots the encoders open to the primary inputs: every slot of a gate
\* of the first level, slots 0 and 2 of a GEC gate, slot 0 of a BGC gate
\* and, without the parallel flag, its slot 1
OpenToInputs(t, k) ==
    \/ LevelOfGate(t) = 0
    \/ IF IsGEC THEN k \in {0, 2} ELSE k = 0 \/ ~parallel

\* C27 as amended: a slot open to the primary inputs is offered every one
\* of them; every other slot (slots 1 and 3 of a GEC gate and, under the
\* parallel flag, slot 1 of a BGC gate, at the second level and beyond) is
\* offered no primary input, only gate outputs.
C27_InputsOffered ==
    \A s \in WrittenSlots :
        InputsOffered(SlotVariable(s[1], s[2])) =
            IF OpenToInputs(s[1], s[2]) THEN AllInputs ELSE {}

\* a GEC gate of the second level: slot 0 is offered every primary input,
\* slot 1 none
C27_Witness ==
    /\ pc = "GEC_written"
    /\ bit_num >= 2
    /\ \E s \in WrittenSlots :
          /\ LevelOfGate(s[1]) = 1
          /\ s[2] = 1
          /\ InputsOffered(SlotVariable(s[1], 0)) = AllInputs
          /\ InputsOffered(SlotVariable(s[1], 1)) = {}


\* the positions that open a connectivity assertion
ConnectivityAsserts ==
    {a \in 1..Len(fout) : fout[a].tok = "ASSERT" /\ fout[a].src = ""}

\* the last position of the text written for the assertion opened at a: the
\* one before the next ASSERT or gate operation
LastOf(a) ==
    CHOOSE e \in a..Len(fout) :
        /\ \A m \in (a + 1)..e : fout[m].tok \notin {"ASSERT", "GATE"}
        /\ e = Len(fout) \/ fout[e + 1].tok \in {"ASSERT", "GATE"}

\* the text from a to e is one assertion: disjuncts separated by OR and one
\* terminator, which comes last
OneAssertion(a, e) ==
    /\ e > a
    /\ (e - a) % 2 = 0
    /\ fout[e].tok = "END"
    /\ \A m \in (a + 1)..(e - 1) :
          fout[m].tok = IF (m - a) % 2 = 1 THEN "EQ" ELSE "OR"

\* C28: every connectivity constraint the BGC encoder writes is one
\* well-formed assertion: an opening ASSERT, disjuncts separated by OR, and
\* exactly one terminator after the last disjunct.
C28_WellFormedAssertions ==
    pc \in {"BGC_levels", "BGC_written"} =>
        \A a \in ConnectivityAsserts : OneAssertion(a, LastOf(a))

\* the same for the GEC encoder
C28_GEC_WellFormedAssertions ==
    IsGEC => \A a \in ConnectivityAsserts : OneAssertion(a, LastOf(a))


(***************************************************************************)
(* generate_smt2_from_sbox: the constants fixed for the input variables    *)
(* x_j and the output variables y_j.  A constant is a bit-vector of        *)
(* 2^bits bits, kept as a number; bit_num is the argument bits.            *)
(***************************************************************************)
\* sbox_to_bits: ys[j] has, at bit len(sbox) - 1 - i, bit bits - 1 - j of
\* sbox[i]
sbox_to_bits(s, bits) ==
    [j \in 1..bits |->
        BitsToNat([i \in 1..Len(s) |-> Bit(s[i], bits - j)])]

\* "if bits == 3: xs = [0xF0, 0xCC, 0xAA] elif bits == 4: xs = [0x00FF,
\* 0x0F0F, 0x3333, 0x5555] else: raise ValueError"; None is the ValueError
input_patterns(bits) ==
    CASE bits = 3 -> Some(<<240, 204, 170>>)
      [] bits = 4 -> Some(<<255, 3855, 13107, 21845>>)
      [] OTHER -> None

\* the widths the generator is called with: the two it supports and one
\* it refuses
Smt2Widths == {2, 3, 4}

\* the S-boxes x -> (a * x + c) mod 2^bits with a odd
AffineSboxes(bits) ==
    {[i \in 1..(2 ^ bits) |-> (a * (i - 1) + c) % (2 ^ bits)] :
        a \in {m \in 1..(2 ^ bits - 1) : m % 2 = 1}, c \in 0..(2 ^ bits - 1)}

\* ys = sbox_to_bits(sbox, bits)
Smt2_sbox_to_bits ==
    /\ pc = "smt2"
    /\ ys' = sbox_to_bits(sbox, bit_num)
    /\ pc' = "smt2_bits"
    /\ UNCHANGED <<bit_num, gate_num, max_depth, xs>>
    /\ UNCHANGED <<enumVars, encVars, searchVars, threadVars, costVars,
                   gateVars, codecVars, formulaVars>>

\* the choice of xs, or the ValueError for an unsupported width
Smt2_input_pattern ==
    /\ pc = "smt2_bits"
    /\ IF input_patterns(bit_num) = None
       THEN /\ xs' = xs
            /\ pc' = "ValueError"
       ELSE /\ xs' = input_patterns(bit_num)[1]
            /\ pc' = "smt2_constants"
    /\ UNCHANGED <<bit_num, gate_num, max_depth, ys>>
    /\ UNCHANGED <<enumVars, encVars, searchVars, threadVars, costVars,
                   gateVars, codecVars, formulaVars>>

Smt2Init ==
    /\ EncIdle
    /\ SearchIdle
    /\ ThreadIdle
    /\ CostIdle
    /\ GateIdle
    /\ FormulaIdle
    /\ pc = "smt2"
    /\ bit_num \in Smt2Widths
    /\ gate_num = 0
    /\ max_depth = 0
    /\ valid_structures = <<>>
    /\ sbox \in AffineSboxes(bit_num)
    /\ A = <<>>
    /\ is_valid = None
    /\ xs = <<>>
    /\ ys = <<>>

Smt2Next ==
    \/ Smt2_sbox_to_bits
    \/ Smt2_input_pattern

SpecSmt2 == Smt2Init /\ [][Smt2Next]_vars

\* the function the constants fix: at bit position p the inputs x_0..x_n-1
\* read as a number (x_0 most significant) are mapped to the outputs
\* y_0..y_n-1 read the same way
PointAt(consts, p) == BitsToNat([j \in 1..Len(consts) |-> Bit(consts[j], p)])

\* C29: for both supported widths the constant fixed for x_j is
\* sbox_to_bits of the identity mapping at index j, so that at every bit
\* position the outputs are the S-box value of the inputs.
C29_InputsMatchOutputs ==
    pc = "smt2_constants" =>
        /\ xs = sbox_to_bits([i \in 1..(2 ^ bit_num) |-> i - 1], bit_num)
        /\ \A p \in 0..(2 ^ bit_num - 1) :
              sbox[PointAt(xs, p) + 1] = PointAt(ys, p)

\* C29 for width 4 alone
C29_Width4_InputsMatchOutputs == bit_num = 4 => C29_InputsMatchOutputs


(***************************************************************************)
(* Claim about the cost table, checked under SpecGate.                     *)
(***************************************************************************)
\* the values the assertions leave for Cost at every selector value
CostChoices ==
    [tech \in {0, 1} |->
        [b \in 0..(2 ^ CostBits - 1) |-> CostValues(tech, b)]]

\* C30: for every selector value the GEC gate-type constraint admits (the
\* default constraint or a valid caller-supplied gate list) the assertions
\* on the Cost table leave exactly one value for Cost at that selector, for
\* both technologies.
C30_CostFixed ==
    GEC_selected =>
        \A tech \in {0, 1} : Cardinality(CostChoices[tech][B]) = 1

\* a selector outside the catalogue admitted by the default constraint, and
\* one admitted by a caller-supplied list, both with a fixed cost
C30_Witness ==
    /\ GEC_selected
    /\ \/ written = "default" /\ B = 16 /\ CostValues(0, B) = {0}
       \/ written = "list" /\ B = BitsToNat(get_gate_value("MAOI1"))
    /\ \A tech \in {0, 1} : Cardinality(CostValues(tech, B)) = 1

=============================================================================
